---- MODULE Spec2Model ----
(***************************************************************************)
(* Vital-Sense-AI: the conversation-to-structured-feedback pipeline.       *)
(*                                                                         *)
(*   feedback_analyzer.py  FeedbackAnalyzer      (output normalizer)       *)
(*   conversation.py       ConversationManager   (conversation buffer)     *)
(*   llm_client.py         LLMClient, providers  (model gateway)           *)
(*   app.py                Flask request handlers (session orchestrator)   *)
(*   main.py               CLI loop               (session orchestrator)   *)
(*                                                                         *)
(* Text is a sequence of characters, each a one-character string.  A long  *)
(* fixed string of the program (a greeting, a canned reply, a key name) is *)
(* written as one element that stands for its characters; such an element  *)
(* neither begins nor ends with whitespace.                                *)
(***************************************************************************)
EXTENDS Integers, Sequences, FiniteSets, TLC

VARIABLES
    raw,             \* a call: the value handed to process_llm_output (the history
                     \*   handed to the mock's chat_completion in SpecMock)
    result,          \* a call: what the call did (a value, or an exception)
    npc,             \* a call: "call" before the call, "done" after it
    conv,            \* buffer: one ConversationManager object
    appended,        \* buffer: every user/assistant message appended so far, in order
    now,             \* buffer: the clock read by datetime.now()
    last,            \* buffer: the last call made on the object and its outcome
    provider,        \* app: the provider behind the global llm_client
    active_sessions, \* app: session_id -> ConversationManager
    rows,            \* app: the rows storage has written
    resp,            \* app: the response to the last request
    call,            \* app: the last request, as the handlers' caller saw it
    ended,           \* app: the session ids an end request has closed
    issued,          \* app: how many session ids have been issued
    nreq,            \* app: how many requests have been handled
    inflight,        \* app: thread -> the request it is handling and how far it got
    orphans,         \* app: session_id -> ConversationManager taken out of the registry
    cli_pc,          \* cli: "chat" in the conversation loop, then "analysis", "closed"
    cli_conversation, \* cli: the ConversationManager of main()
    printed,         \* cli: what main() has printed, in order
    chat,            \* cli: the last pass of the loop, as the user saw it
    turns            \* cli: how many passes the loop has made

nvars == <<raw, result, npc>>
bvars == <<conv, appended, now, last>>
avars == <<provider, active_sessions, rows, resp, call, ended, issued, nreq, inflight, orphans>>
cvars == <<cli_pc, cli_conversation, printed, chat, turns>>
vars == <<nvars, bvars, avars, cvars>>

-----------------------------------------------------------------------------
(* Text                                                                    *)

IsSpace(c) == c \in {" ", "\t", "\n"}

RECURSIVE LStrip(_)
LStrip(s) == IF s # <<>> /\ IsSpace(Head(s)) THEN LStrip(Tail(s)) ELSE s

RECURSIVE RStrip(_)
RStrip(s) ==
    IF s # <<>> /\ IsSpace(s[Len(s)]) THEN RStrip(SubSeq(s, 1, Len(s) - 1)) ELSE s

\* str.strip()
Strip(s) == RStrip(LStrip(s))

UpperCase == <<"A","B","C","D","E","F","G","H","I","J","K","L","M",
               "N","O","P","Q","R","S","T","U","V","W","X","Y","Z">>
LowerCase == <<"a","b","c","d","e","f","g","h","i","j","k","l","m",
               "n","o","p","q","r","s","t","u","v","w","x","y","z">>

LowerChar(c) ==
    IF \E i \in 1..26 : UpperCase[i] = c
    THEN LowerCase[CHOOSE i \in 1..26 : UpperCase[i] = c]
    ELSE c

\* str.lower()
Lower(s) == [i \in 1..Len(s) |-> LowerChar(s[i])]

\* The index of the first element of s satisfying a separator test, or 0.
FirstSep(s, seps) ==
    IF \E i \in 1..Len(s) : s[i] \in seps
    THEN CHOOSE i \in 1..Len(s) : s[i] \in seps /\ \A j \in 1..(i - 1) : s[j] \notin seps
    ELSE 0

\* The j-th smallest element of a set of positions P.
NthOf(P, j) == CHOOSE i \in P : Cardinality({k \in P : k < i}) = j - 1

\* str.split(sep) for a one-character sep: every field, empty ones included.
SplitOn(s, sep) ==
    LET P == {i \in 1..Len(s) : s[i] = sep}
        n == Cardinality(P)
        Pos(j) == IF j = 0 THEN 0 ELSE IF j = n + 1 THEN Len(s) + 1 ELSE NthOf(P, j)
    IN  [j \in 1..(n + 1) |-> SubSeq(s, Pos(j - 1) + 1, Pos(j) - 1)]

\* str.split() with no argument: the maximal runs of non-whitespace.
SplitWs(s) ==
    LET starts == {i \in 1..Len(s) : ~IsSpace(s[i]) /\ (i = 1 \/ IsSpace(s[i - 1]))}
        EndOf(i) ==
            CHOOSE j \in i..Len(s) :
                /\ \A k \in i..j : ~IsSpace(s[k])
                /\ j = Len(s) \/ IsSpace(s[j + 1])
    IN  [j \in 1..Cardinality(starts) |->
            SubSeq(s, NthOf(starts, j), EndOf(NthOf(starts, j)))]

\* sep.join(parts)
RECURSIVE Join(_, _)
Join(parts, sep) ==
    IF parts = <<>> THEN <<>>
    ELSE IF Len(parts) = 1 THEN parts[1]
    ELSE parts[1] \o sep \o Join(Tail(parts), sep)

\* needle in hay (substring test)
IsInfix(needle, hay) ==
    \E i \in 0..(Len(hay) - Len(needle)) :
        SubSeq(hay, i + 1, i + Len(needle)) = needle

StartsWith(s, p) == Len(s) >= Len(p) /\ SubSeq(s, 1, Len(p)) = p
EndsWith(s, p) == Len(s) >= Len(p) /\ SubSeq(s, Len(s) - Len(p) + 1, Len(s)) = p

Digits == <<"0","1","2","3","4","5","6","7","8","9">>
IsDigit(c) == \E i \in 1..10 : Digits[i] = c
DigitVal(c) == (CHOOSE i \in 1..10 : Digits[i] = c) - 1

RECURSIVE NatToText(_)
NatToText(n) ==
    IF n < 10 THEN <<Digits[n + 1]>> ELSE NatToText(n \div 10) \o <<Digits[(n % 10) + 1]>>

IntToText(n) == IF n < 0 THEN <<"-">> \o NatToText(-n) ELSE NatToText(n)

\* The number written by the first n digits of s.
RECURSIVE DigitsPrefix(_, _)
DigitsPrefix(s, n) ==
    IF n = 0 THEN 0 ELSE DigitsPrefix(s, n - 1) * 10 + DigitVal(s[n])

DigitsToNat(s) == DigitsPrefix(s, Len(s))

AllDigits(s) == \A i \in 1..Len(s) : IsDigit(s[i])

-----------------------------------------------------------------------------
(* Python values.  A float is NaN, +/-Infinity, or a finite number kept in *)
(* tenths (m = 49 is 4.9); an int too large for a float is "bigint".       *)

PyNone == [t |-> "none"]
PyBool(b) == [t |-> "bool", b |-> b]
PyInt(i) == [t |-> "int", i |-> i]
PyBigInt == [t |-> "bigint"]
PyStr(s) == [t |-> "str", s |-> s]
PyList(l) == [t |-> "list", l |-> l]
PyDict(d) == [t |-> "dict", d |-> d]
Fin(m) == [k |-> "fin", m |-> m]
NaN == [k |-> "nan"]
PosInf == [k |-> "inf"]
NegInf == [k |-> "ninf"]
PyFloat(f) == [t |-> "float", f |-> f]

EmptyDict == [k \in {} |-> PyNone]

\* The outcome of an evaluation: a value, or an exception of a named class.
Ok(v) == [exc |-> "none", v |-> v]
Raise(e) == [exc |-> e]
\* An exception with the text str(e) gives.
RaiseMsg(e, msg) == [exc |-> e, msg |-> msg]
Raised(r) == r.exc # "none"

\* dict.get(key, default)
Get(d, key, default) == IF key \in DOMAIN d THEN d[key] ELSE default

\* float(str), last step: the digits before and after the point.
ParseDigits(ip, fp, neg) ==
    IF AllDigits(ip) /\ AllDigits(fp) /\ Len(ip) + Len(fp) > 0
    THEN Ok(Fin((IF neg THEN -1 ELSE 1)
                    * (DigitsToNat(ip) * 10 + (IF fp = <<>> THEN 0 ELSE DigitVal(fp[1])))))
    ELSE Raise("ValueError")

ParseDecimal(body, dot, neg) ==
    ParseDigits(IF dot = 0 THEN body ELSE SubSeq(body, 1, dot - 1),
                IF dot = 0 THEN <<>> ELSE SubSeq(body, dot + 1, Len(body)),
                neg)

ParseUnsigned(body, neg) ==
    IF body \in {<<"i","n","f">>, <<"i","n","f","i","n","i","t","y">>}
    THEN Ok(IF neg THEN NegInf ELSE PosInf)
    ELSE IF body = <<"n","a","n">> THEN Ok(NaN)
    ELSE ParseDecimal(body, FirstSep(body, {"."}), neg)

ParseSigned(s) ==
    IF s # <<>> /\ Head(s) \in {"+", "-"}
    THEN ParseUnsigned(Tail(s), Head(s) = "-")
    ELSE ParseUnsigned(s, FALSE)

\* float(str): surrounding whitespace ignored, optional sign, then "inf",
\* "infinity", "nan" in any case, or digits with an optional fraction.
ParseFloat(chars) == ParseSigned(Lower(Strip(chars)))

\* float(x)
ToFloat(x) ==
    CASE x.t = "float" -> Ok(x.f)
      [] x.t = "int" -> Ok(Fin(x.i * 10))
      [] x.t = "bool" -> Ok(Fin(IF x.b THEN 10 ELSE 0))
      [] x.t = "bigint" -> RaiseMsg("OverflowError", <<"int too large to convert to float">>)
      [] x.t = "str" -> ParseFloat(x.s)
      [] OTHER -> Raise("TypeError")

\* int(f) for a float f: truncation toward zero.
FloatToInt(f) ==
    CASE f.k = "nan" -> Raise("ValueError")
      [] f.k \in {"inf", "ninf"} ->
            RaiseMsg("OverflowError", <<"cannot convert float infinity to integer">>)
      [] OTHER -> Ok(IF f.m >= 0 THEN f.m \div 10 ELSE -((-f.m) \div 10))

Max(a, b) == IF a >= b THEN a ELSE b
Min(a, b) == IF a <= b THEN a ELSE b

\* str(x) of a finite float kept in tenths: "4.9", "-3.5", "3.0".
FloatText(f) ==
    CASE f.k = "nan" -> <<"n","a","n">>
      [] f.k = "inf" -> <<"i","n","f">>
      [] f.k = "ninf" -> <<"-","i","n","f">>
      [] OTHER ->
            LET a == IF f.m < 0 THEN -f.m ELSE f.m
            IN  (IF f.m < 0 THEN <<"-">> ELSE <<>>)
                    \o NatToText(a \div 10) \o <<".">> \o <<Digits[(a % 10) + 1]>>

\* The keys of a dict in one fixed order.
RECURSIVE KeySeq(_)
KeySeq(keys) ==
    IF keys = {} THEN <<>>
    ELSE LET k == CHOOSE x \in keys : TRUE IN <<k>> \o KeySeq(keys \ {k})

\* str(x) and repr(x); they differ on a str only (repr quotes it).
RECURSIVE StrOf(_)
RECURSIVE ReprOf(_)
StrOf(x) == IF x.t = "str" THEN x.s ELSE ReprOf(x)
ReprOf(x) ==
    CASE x.t = "none" -> <<"N","o","n","e">>
      [] x.t = "bool" -> IF x.b THEN <<"T","r","u","e">> ELSE <<"F","a","l","s","e">>
      [] x.t = "int" -> IntToText(x.i)
      [] x.t = "bigint" -> <<"1", "0...0">>    \* one element for the digits
      [] x.t = "float" -> FloatText(x.f)
      [] x.t = "str" -> <<"'">> \o x.s \o <<"'">>
      [] x.t = "list" ->
            <<"[">> \o Join([i \in 1..Len(x.l) |-> ReprOf(x.l[i])], <<",", " ">>) \o <<"]">>
      [] x.t = "dict" ->
            LET ks == KeySeq(DOMAIN x.d)
            IN  <<"{">>
                    \o Join([i \in 1..Len(ks) |->
                                <<"'", ks[i], "'", ":", " ">> \o ReprOf(x.d[ks[i]])],
                            <<",", " ">>)
                    \o <<"}">>

-----------------------------------------------------------------------------
(* feedback_analyzer.py: FeedbackAnalyzer                                  *)

MinScore == 1
MaxScore == 5
MaxBullets == 5

\* int(float(score)): the body of validate_score's try.
IntOfFloat(f) == IF Raised(f) THEN f ELSE FloatToInt(f.v)

\* validate_score's outcome without the clamp into [min_val, max_val].
ScoreOf_unclamped(n, min_val, max_val) ==
    IF ~Raised(n) THEN Ok(n.v)
    ELSE IF n.exc \in {"ValueError", "TypeError"} THEN Ok((min_val + max_val) \div 2)
    ELSE n

\* validate_score's outcome given that of int(float(score)): the clamped
\* number; the midpoint on ValueError and TypeError; any other exception
\* leaves the function.
ScoreOf(n, min_val, max_val) ==
    IF ~Raised(n) THEN Ok(Max(min_val, Min(max_val, n.v)))
    ELSE IF n.exc \in {"ValueError", "TypeError"} THEN Ok((min_val + max_val) \div 2)
    ELSE n

\* validate_score
validate_score(score, min_val, max_val) ==
    ScoreOf(IntOfFloat(ToFloat(score)), min_val, max_val)

\* clean_text with repr(text) in the place of str(text).
clean_text_repr(text) ==
    IF text.t = "none" THEN <<>>
    ELSE Join(SplitWs(Strip(ReprOf(text))), <<" ">>)

\* clean_text
clean_text(text) ==
    IF text.t = "none" THEN <<>>
    ELSE Join(SplitWs(Strip(StrOf(text))), <<" ">>)

YesWords == {<<"y","e","s">>, <<"y">>, <<"t","r","u","e">>, <<"1">>}
NoWords == {<<"n","o">>, <<"n">>, <<"f","a","l","s","e">>, <<"0">>}

ConfidenceOf(val_str) ==
    IF val_str \in YesWords THEN "yes"
    ELSE IF val_str \in NoWords THEN "no"
    ELSE "partial"

\* validate_confidence without the lower-casing.
validate_confidence_cased(value) ==
    IF value.t = "none" THEN "partial" ELSE ConfidenceOf(Strip(StrOf(value)))

\* validate_confidence
validate_confidence(value) ==
    IF value.t = "none" THEN "partial" ELSE ConfidenceOf(Strip(Lower(StrOf(value))))

RadarAxes ==
    <<"felt_heard", "concerns_addressed", "clear_communication", "respect_shown",
      "time_given">>
AxisSet == {RadarAxes[i] : i \in 1..Len(RadarAxes)}

default_metrics == [a \in AxisSet |-> 3]

\* The first exception raised by a sequence of outcomes, if any.
FirstRaised(rs) ==
    IF \E i \in 1..Len(rs) : Raised(rs[i])
    THEN rs[CHOOSE i \in 1..Len(rs) : Raised(rs[i]) /\ \A j \in 1..(i - 1) : ~Raised(rs[j])]
    ELSE Ok(TRUE)

AxisIndex(a) == CHOOSE i \in 1..Len(RadarAxes) : RadarAxes[i] = a

\* The validated dict, or the first exception among the axes' outcomes.
RadarOf(rs) ==
    IF \E i \in 1..Len(rs) : Raised(rs[i]) THEN FirstRaised(rs)
    ELSE Ok([a \in AxisSet |-> rs[AxisIndex(a)].v])

\* validate_radar_metrics: the axes are validated in default_metrics' order.
validate_radar_metrics(metrics) ==
    IF metrics.t # "dict" THEN Ok(default_metrics)
    ELSE RadarOf([i \in 1..Len(RadarAxes) |->
                    validate_score(Get(metrics.d, RadarAxes[i], PyInt(3)), MinScore, MaxScore)])

Placeholder == <<"No specific feedback provided.">>

\* The non-empty texts of a sequence, in order.
RECURSIVE NonEmpty(_)
NonEmpty(ts) ==
    IF ts = <<>> THEN <<>>
    ELSE (IF Head(ts) # <<>> THEN <<Head(ts)>> ELSE <<>>) \o NonEmpty(Tail(ts))

OrPlaceholder(cleaned) == IF cleaned # <<>> THEN cleaned ELSE <<Placeholder>>

\* The list branch of validate_bullets: the first MaxBullets elements cleaned,
\* the empty ones dropped.
CleanBullets(l) ==
    OrPlaceholder(NonEmpty([i \in 1..Min(MaxBullets, Len(l)) |-> clean_text(l[i])]))

\* The str branch of validate_bullets: [b.strip() for b in split(",") if b.strip()]
StripEach(parts) == [i \in 1..Len(parts) |-> Strip(parts[i])]
AsStrs(texts) == [i \in 1..Len(texts) |-> PyStr(texts[i])]
SplitBullets(s) == AsStrs(NonEmpty(StripEach(SplitOn(s, ","))))

\* validate_bullets
validate_bullets(bullets) ==
    IF bullets.t = "none" THEN <<Placeholder>>
    ELSE IF bullets.t = "str" THEN CleanBullets(SplitBullets(bullets.s))
    ELSE IF bullets.t = "list" THEN CleanBullets(bullets.l)
    ELSE <<Placeholder>>

\* The six fields' outcomes for the dict d, in source order.
FieldsOf(d) ==
    [ satisfaction_score |->
        validate_score(Get(d, "satisfaction_score", PyInt(3)), MinScore, MaxScore),
      radar_metrics |-> validate_radar_metrics(Get(d, "radar_metrics", PyDict(EmptyDict))),
      confidence_in_treatment |->
        Ok(validate_confidence(
            Get(d, "confidence_in_treatment", PyStr(<<"p","a","r","t","i","a","l">>)))),
      duration_satisfaction |->
        validate_score(Get(d, "duration_satisfaction", PyInt(3)), MinScore, MaxScore),
      staff_behavior |->
        validate_score(Get(d, "staff_behavior", PyInt(3)), MinScore, MaxScore),
      summary_bullets |-> Ok(validate_bullets(Get(d, "summary_bullets", PyList(<<>>)))) ]

FieldOrder ==
    <<"satisfaction_score", "radar_metrics", "confidence_in_treatment",
      "duration_satisfaction", "staff_behavior", "summary_bullets">>

\* The feedback dict, unless a field's validation raised: the first exception
\* leaves the function.
FeedbackOf(f) ==
    IF \E k \in DOMAIN f : Raised(f[k])
    THEN FirstRaised([i \in 1..Len(FieldOrder) |-> f[FieldOrder[i]]])
    ELSE Ok([k \in DOMAIN f |-> f[k].v])

\* process_llm_output
process_llm_output(llm_response) ==
    FeedbackOf(FieldsOf(IF llm_response.t = "dict" THEN llm_response.d ELSE EmptyDict))

-----------------------------------------------------------------------------
(* The normalizer's inputs: what a model may hand back.                    *)

\* Lists handed in as summary_bullets have up to MaxListLen elements.
MaxListLen == 6

ScoreValues ==
    { PyNone, PyBool(TRUE), PyBool(FALSE), PyBigInt, PyList(<<>>), PyDict(EmptyDict),
      PyInt(0), PyInt(1), PyInt(3), PyInt(5), PyInt(7), PyInt(-2),
      PyFloat(Fin(49)), PyFloat(Fin(-35)), PyFloat(Fin(9)), PyFloat(NaN),
      PyFloat(PosInf), PyFloat(NegInf),
      PyStr(<<"4">>), PyStr(<<" ","2"," ">>), PyStr(<<"4",".","9">>), PyStr(<<"-","1">>),
      PyStr(<<"i","n","f">>), PyStr(<<"-","I","n","f","i","n","i","t","y">>),
      PyStr(<<"n","a","n">>), PyStr(<<"a","b","c">>), PyStr(<<>>) }

ConfidenceValues ==
    { PyNone, PyBool(TRUE), PyBool(FALSE), PyInt(1), PyInt(0), PyInt(2), PyList(<<>>),
      PyStr(<<"y","e","s">>), PyStr(<<" ","Y","E","S","\t">>), PyStr(<<"Y">>),
      PyStr(<<"T","r","u","e">>), PyStr(<<"1">>), PyStr(<<"n","o">>), PyStr(<<"N","o"," ">>),
      PyStr(<<"n">>), PyStr(<<"f","a","l","s","e">>), PyStr(<<"0">>),
      PyStr(<<"p","a","r","t","i","a","l">>), PyStr(<<"m","a","y","b","e">>), PyStr(<<>>),
      PyFloat(Fin(10)), PyStr(<<"Y","e","s",".">>) }

BulletElements ==
    { PyStr(<<"a">>), PyStr(<<" ","a"," "," ","b","\t">>), PyStr(<<" ">>), PyNone, PyInt(3) }

BulletLists ==
    UNION { [1..n -> BulletElements] : n \in 0..2 }
        \cup { [i \in 1..n |-> PyStr(<<"b", Digits[i + 1]>>)] : n \in 3..MaxListLen }
        \cup { [i \in 1..n |-> IF i % 2 = 1 THEN PyStr(<<" ">>) ELSE PyStr(<<"c", Digits[i + 1]>>)] :
                    n \in 3..MaxListLen }

BulletValues ==
    { PyList(l) : l \in BulletLists }
        \cup { PyNone, PyInt(5), PyDict(EmptyDict), PyStr(<<>>), PyStr(<<" ", ",", " ">>),
               PyStr(<<"a", ",", " ", ",", "b", " ", "c", ",", ",">>),
               PyStr(<<"a",",","b",",","c",",","d",",","e",",","f",",","g">>) }

\* A dict holding the given keys (a function) with one more key set.
With(d, key, value) == (key :> value) @@ d

RadarValues ==
    { PyNone, PyList(<<>>), PyStr(<<"x">>), PyDict(EmptyDict) }
        \cup { PyDict(With(EmptyDict, a, v)) : a \in {"felt_heard", "time_given"}, v \in ScoreValues }
        \cup { PyDict([a \in AxisSet |-> v]) : v \in ScoreValues }
        \cup { PyDict(With([a \in AxisSet |-> PyInt(4)], "extra", PyInt(9))) }

\* A complete, well-formed response, and the same with one field replaced or dropped.
GoodDict ==
    [ satisfaction_score |-> PyInt(4),
      radar_metrics |-> PyDict([a \in AxisSet |-> PyInt(2)]),
      confidence_in_treatment |-> PyStr(<<"y","e","s">>),
      duration_satisfaction |-> PyInt(5),
      staff_behavior |-> PyInt(1),
      summary_bullets |-> PyList(<<PyStr(<<"o","k">>)>>) ]

Without(d, key) == [k \in DOMAIN d \ {key} |-> d[k]]

RawInputs ==
    { PyNone, PyInt(3), PyStr(<<"x">>), PyList(<<PyInt(1)>>), PyBool(TRUE),
      PyFloat(PosInf), PyDict(EmptyDict), PyDict(GoodDict) }
        \cup { PyDict(Without(GoodDict, k)) : k \in DOMAIN GoodDict }
        \cup { PyDict(With(GoodDict, k, v)) :
                    k \in {"satisfaction_score", "duration_satisfaction", "staff_behavior"},
                    v \in ScoreValues }
        \cup { PyDict(With(GoodDict, "radar_metrics", v)) : v \in RadarValues }
        \cup { PyDict(With(GoodDict, "confidence_in_treatment", v)) : v \in ConfidenceValues }
        \cup { PyDict(With(GoodDict, "summary_bullets", v)) : v \in BulletValues }
        \cup { PyDict(With(With(EmptyDict, "satisfaction_score", v), "summary_bullets", b)) :
                    v \in ScoreValues, b \in {PyNone, PyStr(<<"a">>)} }
        \cup { PyDict(With(With(GoodDict, "summary", PyStr(<<"s">>)), "key_issues", PyList(<<>>))) }
        \cup { PyDict(With(With(GoodDict, "satisfaction_score", v), "summary_bullets", PyList(l))) :
                    v \in {PyInt(7), PyStr(<<"a","b","c">>)},
                    l \in {b \in BulletLists : Len(b) > MaxBullets} }

-----------------------------------------------------------------------------
(* llm_client.py: the text of an analysis response and json.loads.         *)
(*                                                                         *)
(* A response is a sequence of tokens: punctuation, string literals (with  *)
(* their text), number literals (with their digits), the bare words        *)
(* null/true/false/NaN/Infinity/-Infinity, whitespace, the code-fence      *)
(* markers, and any other word.                                            *)

Punct(c) == [k |-> "p", c |-> c]
StrTok(s) == [k |-> "s", s |-> s]
NumTok(digits) == [k |-> "n", d |-> digits]
Bare(w) == [k |-> "w", w |-> w]
Ws == [k |-> "ws"]
\* The three backticks of a code fence, with and without the word json.
FenceJson == [k |-> "fence", lang |-> "json"]
Fence == [k |-> "fence", lang |-> ""]

\* str.strip() on a response.
RECURSIVE LStripToks(_)
LStripToks(t) == IF t # <<>> /\ Head(t) = Ws THEN LStripToks(Tail(t)) ELSE t

RECURSIVE RStripToks(_)
RStripToks(t) ==
    IF t # <<>> /\ t[Len(t)] = Ws THEN RStripToks(SubSeq(t, 1, Len(t) - 1)) ELSE t

StripToks(t) == RStripToks(LStripToks(t))

\* if clean_response.startswith(<json fence>): clean_response = clean_response[7:]
DropOpeningFence(t) == IF t # <<>> /\ Head(t) = FenceJson THEN Tail(t) ELSE t

\* The closing fence left in place.
DropClosingFence_kept(t) == t

\* if clean_response.endswith(<fence>): clean_response = clean_response[:-3]
DropClosingFence(t) ==
    IF t # <<>> /\ t[Len(t)] = Fence THEN SubSeq(t, 1, Len(t) - 1) ELSE t

\* A dict key (a string) from a string literal's text.
RECURSIVE KeyOf(_)
KeyOf(text) == IF text = <<>> THEN "" ELSE Head(text) \o KeyOf(Tail(text))

\* A number literal: an int when it has no fraction, else a float; the digit
\* run "0...0" writes an int beyond the float range.
JsonNumber(d) ==
    IF \E i \in 1..Len(d) : d[i] = "0...0" THEN PyBigInt
    ELSE IF \E i \in 1..Len(d) : d[i] = "." THEN PyFloat(ParseSigned(d).v)
    ELSE PyInt(ParseSigned(d).v.m \div 10)

BareValues ==
    [ null |-> PyNone, true |-> PyBool(TRUE), false |-> PyBool(FALSE),
      NaN |-> PyFloat(NaN), Infinity |-> PyFloat(PosInf) ]

NoParse == [ok |-> FALSE]
Parsed(v, next) == [ok |-> TRUE, v |-> v, i |-> next]

\* The JSON grammar over tokens t from position i: a value and the position
\* after it, or no parse.
RECURSIVE ParseValue(_, _)
RECURSIVE ParseElems(_, _, _)
RECURSIVE ParseMembers(_, _, _)
RECURSIVE AfterElem(_, _, _)
RECURSIVE AfterMember(_, _, _, _)

ParseValue(t, i) ==
    IF i > Len(t) THEN NoParse
    ELSE CASE t[i].k = "s" -> Parsed(PyStr(t[i].s), i + 1)
           [] t[i].k = "n" -> Parsed(JsonNumber(t[i].d), i + 1)
           [] t[i].k = "w" ->
                IF t[i].w \in DOMAIN BareValues THEN Parsed(BareValues[t[i].w], i + 1)
                ELSE IF t[i].w = "-Infinity" THEN Parsed(PyFloat(NegInf), i + 1)
                ELSE NoParse
           [] t[i] = Punct("[") ->
                IF i < Len(t) /\ t[i + 1] = Punct("]") THEN Parsed(PyList(<<>>), i + 2)
                ELSE ParseElems(t, i + 1, <<>>)
           [] t[i] = Punct("{") ->
                IF i < Len(t) /\ t[i + 1] = Punct("}") THEN Parsed(PyDict(EmptyDict), i + 2)
                ELSE ParseMembers(t, i + 1, EmptyDict)
           [] OTHER -> NoParse

ParseElems(t, i, acc) == AfterElem(t, ParseValue(t, i), acc)

AfterElem(t, r, acc) ==
    IF ~r.ok \/ r.i > Len(t) THEN NoParse
    ELSE IF t[r.i] = Punct("]") THEN Parsed(PyList(Append(acc, r.v)), r.i + 1)
    ELSE IF t[r.i] = Punct(",") THEN ParseElems(t, r.i + 1, Append(acc, r.v))
    ELSE NoParse

ParseMembers(t, i, acc) ==
    IF i + 1 > Len(t) \/ t[i].k # "s" \/ t[i + 1] # Punct(":") THEN NoParse
    ELSE AfterMember(t, KeyOf(t[i].s), ParseValue(t, i + 2), acc)

\* A repeated key keeps its last value.
AfterMember(t, key, r, acc) ==
    IF ~r.ok \/ r.i > Len(t) THEN NoParse
    ELSE IF t[r.i] = Punct("}") THEN Parsed(PyDict((key :> r.v) @@ acc), r.i + 1)
    ELSE IF t[r.i] = Punct(",") THEN ParseMembers(t, r.i + 1, (key :> r.v) @@ acc)
    ELSE NoParse

NotWs(tok) == tok # Ws

\* One value and nothing after it.
WholeValue(t, r) == IF r.ok /\ r.i = Len(t) + 1 THEN Ok(r.v) ELSE Raise("JSONDecodeError")

ParseWhole(t) == WholeValue(t, ParseValue(t, 1))

\* json.loads: whitespace between tokens is insignificant.
JsonLoads(text) == ParseWhole(SelectSeq(text, NotWs))

\* json.dumps
RECURSIVE JsonDumps(_)
RECURSIVE DumpItems(_, _)
RECURSIVE DumpMembers(_, _)

JsonDumps(x) ==
    CASE x.t = "none" -> <<Bare("null")>>
      [] x.t = "bool" -> <<Bare(IF x.b THEN "true" ELSE "false")>>
      [] x.t = "int" -> <<NumTok(IntToText(x.i))>>
      [] x.t = "bigint" -> <<NumTok(<<"1", "0...0">>)>>
      [] x.t = "float" ->
            IF x.f.k = "nan" THEN <<Bare("NaN")>>
            ELSE IF x.f.k = "inf" THEN <<Bare("Infinity")>>
            ELSE IF x.f.k = "ninf" THEN <<Bare("-Infinity")>>
            ELSE <<NumTok(FloatText(x.f))>>
      [] x.t = "str" -> <<StrTok(x.s)>>
      [] x.t = "list" -> <<Punct("[")>> \o DumpItems(x.l, 1) \o <<Punct("]")>>
      [] x.t = "dict" ->
            <<Punct("{")>> \o DumpMembers(x.d, KeySeq(DOMAIN x.d)) \o <<Punct("}")>>

DumpItems(l, i) ==
    IF i > Len(l) THEN <<>>
    ELSE (IF i > 1 THEN <<Punct(","), Ws>> ELSE <<>>) \o JsonDumps(l[i]) \o DumpItems(l, i + 1)

DumpMembers(d, keys) ==
    IF keys = <<>> THEN <<>>
    ELSE <<StrTok(<<Head(keys)>>), Punct(":"), Ws>> \o JsonDumps(d[Head(keys)])
            \o (IF Len(keys) > 1 THEN <<Punct(","), Ws>> ELSE <<>>)
            \o DumpMembers(d, Tail(keys))

\* The dict returned when the response does not parse.
ParseFailureDict ==
    [ satisfaction_score |-> PyInt(3),
      summary |-> PyStr(<<"Analysis failed to parse.">>),
      key_issues |-> PyList(<<PyStr(<<"Analysis Error">>)>>) ]

\* The except clauses of analyze_feedback.
AnalyzeExcept(r) ==
    IF ~Raised(r) THEN r.v
    ELSE IF r.exc = "JSONDecodeError" THEN PyDict(ParseFailureDict)
    ELSE PyDict(EmptyDict)

\* The try body of analyze_feedback on the provider's outcome: a raise passes
\* through, None has no strip(), a text is stripped of fences and parsed.
AnalyzeTry(outcome) ==
    IF Raised(outcome) THEN outcome
    ELSE IF outcome.v.t # "str" THEN Raise("AttributeError")
    ELSE JsonLoads(DropClosingFence(DropOpeningFence(StripToks(outcome.v.s))))

\* LLMClient.analyze_feedback, given what provider.analyze_conversation did.
analyze_feedback(outcome) == AnalyzeExcept(AnalyzeTry(outcome))

-----------------------------------------------------------------------------
(* llm_client.py: MockProvider.                                            *)

\* The analysis keywords that occur inside a fixed program string (a text
\* element longer than one character), lower-cased.
WordsIn(atom) ==
    CASE atom = "Wait times can be so frustrating. How long did you have to wait approximately?"
            -> {"long", "wait"}
      [] atom = "I understand waiting is difficult. Did anyone communicate about the delay?"
            -> {"wait"}
      [] atom = "That's a common concern we hear. Was there anything available to make the wait more comfortable?"
            -> {"wait"}
      [] atom = "That's great feedback! Would you recommend us to others? Why?"
            -> {"great"}
      [] atom = "It's great that the staff made a positive impression! Anyone specific you'd like to mention?"
            -> {"great"}
      [] atom = "That's helpful to know. Were there any surprises during your visit, good or bad?"
            -> {"bad", "good"}
      [] OTHER -> {}

\* `word in text.lower()`
Contains(text, word) ==
    \/ IsInfix(word, Lower(text))
    \/ \E i \in 1..Len(text) : KeyOf(word) \in WordsIn(text[i])

\* any(word in text for word in words)
AnyIn(text, words) == \E w \in words : Contains(text, w)

Bullets(texts) == PyList([i \in 1..Len(texts) |-> PyStr(<<texts[i]>>)])

Metrics(heard, addressed, clear, respect, time) ==
    PyDict([ felt_heard |-> PyInt(heard), concerns_addressed |-> PyInt(addressed),
             clear_communication |-> PyInt(clear), respect_shown |-> PyInt(respect),
             time_given |-> PyInt(time) ])

Analysis(score, metrics, confidence, duration, staff, bullets) ==
    PyDict([ satisfaction_score |-> PyInt(score), radar_metrics |-> metrics,
             confidence_in_treatment |-> PyStr(confidence),
             duration_satisfaction |-> PyInt(duration), staff_behavior |-> PyInt(staff),
             summary_bullets |-> bullets ])

NegativeWords == {<<"b","a","d">>, <<"t","e","r","r","i","b","l","e">>, <<"l","o","n","g">>, <<"w","a","i","t">>}
PositiveWords == {<<"g","o","o","d">>, <<"g","r","e","a","t">>, <<"e","x","c","e","l","l","e","n","t">>, <<"a","m","a","z","i","n","g">>}
RudeWords == {<<"r","u","d","e">>, <<"m","e","a","n">>, <<"d","i","s","m","i","s","s","i","v","e">>, <<"i","g","n","o","r","e","d">>}

NegativeAnalysis ==
    Analysis(2, Metrics(2, 2, 3, 3, 1), <<"p","a","r","t","i","a","l">>, 2, 3,
             Bullets(<< "Patient experienced significant wait times",
                        "Consultation felt rushed due to delays",
                        "Concerns were partially addressed",
                        "Recommend reviewing scheduling processes" >>))

PositiveAnalysis ==
    Analysis(5, Metrics(5, 5, 5, 5, 5), <<"y","e","s">>, 5, 5,
             Bullets(<< "Patient highly satisfied with overall care",
                        "Staff was attentive and professional",
                        "Clear communication throughout visit",
                        "Would recommend to others",
                        "No concerns or issues raised" >>))

RudeAnalysis ==
    Analysis(1, Metrics(1, 2, 2, 1, 2), <<"n","o">>, 2, 1,
             Bullets(<< "Patient felt dismissed by staff",
                        "Communication was poor or unclear",
                        "Did not feel respected during visit",
                        "Urgent follow-up recommended",
                        "Consider staff training on patient interactions" >>))

NeutralAnalysis ==
    Analysis(3, Metrics(3, 3, 3, 4, 3), <<"p","a","r","t","i","a","l">>, 3, 4,
             Bullets(<< "Patient had a routine healthcare experience",
                        "No major concerns raised",
                        "Standard care was provided",
                        "Continue monitoring for patterns" >>))

\* MockProvider.analyze_conversation: the response text.
MockAnalysisOf(conversation) ==
    IF AnyIn(conversation, NegativeWords) THEN NegativeAnalysis
    ELSE IF AnyIn(conversation, PositiveWords) THEN PositiveAnalysis
    ELSE IF AnyIn(conversation, RudeWords) THEN RudeAnalysis
    ELSE NeutralAnalysis

\* The same with a document that rates the visit out of range.
mock_analyze_conversation_overrated(conversation) ==
    PyStr(JsonDumps(PyDict(With(MockAnalysisOf(conversation).d, "satisfaction_score",
                                PyInt(7)))))

mock_analyze_conversation(conversation) == PyStr(JsonDumps(MockAnalysisOf(conversation)))

ChatNegativeWords == {<<"b","a","d">>, <<"t","e","r","r","i","b","l","e">>, <<"a","w","f","u","l">>, <<"h","o","r","r","i","b","l","e">>, <<"w","o","r","s","t">>}
ChatWaitWords == {<<"l","o","n","g">>, <<"s","l","o","w">>, <<"w","a","i","t">>, <<"w","a","i","t","i","n","g">>, <<"d","e","l","a","y","e","d">>}
ChatRudeWords == {<<"r","u","d","e">>, <<"m","e","a","n">>, <<"d","i","s","m","i","s","s","i","v","e">>, <<"i","g","n","o","r","e","d">>}
ChatPositiveWords == {<<"g","o","o","d">>, <<"g","r","e","a","t">>, <<"e","x","c","e","l","l","e","n","t">>, <<"a","m","a","z","i","n","g">>, <<"w","o","n","d","e","r","f","u","l">>}
ChatFriendlyWords == {<<"n","i","c","e">>, <<"f","r","i","e","n","d","l","y">>, <<"h","e","l","p","f","u","l">>, <<"k","i","n","d">>, <<"c","a","r","i","n","g">>}
DoctorWords == {<<"d","o","c","t","o","r">>, <<"p","h","y","s","i","c","i","a","n">>, <<"d","r">>}
NurseWords == {<<"n","u","r","s","e">>, <<"n","u","r","s","e","s">>, <<"n","u","r","s","i","n","g">>}
AppointmentWords == {<<"a","p","p","o","i","n","t","m","e","n","t">>, <<"s","c","h","e","d","u","l","e">>, <<"b","o","o","k","i","n","g">>}
FacilityWords == {<<"c","l","e","a","n">>, <<"d","i","r","t","y">>, <<"f","a","c","i","l","i","t","y">>, <<"r","o","o","m">>, <<"b","u","i","l","d","i","n","g">>}
OffTopicWords == {<<"m","a","r","k","e","t","i","n","g">>, <<"s","a","l","e","s">>, <<"w","e","a","t","h","e","r">>, <<"s","p","o","r","t","s">>, <<"p","o","l","i","t","i","c","s">>}

greetings ==
    { <<"Hello! I'm here to hear about your healthcare visit today. How was your overall experience?">>,
      <<"Hi there! Thank you for taking the time to share your feedback. What brings you here today?">>,
      <<"Welcome! I'd love to hear about your recent healthcare experience. What stood out to you?">> }

negatives ==
    { <<"I'm truly sorry to hear that. That sounds very difficult. Can you tell me more about what happened?">>,
      <<"That's really concerning to hear. Your experience matters. What specifically went wrong?">>,
      <<"I appreciate you sharing that, even though it was negative. What would have made it better?">> }

wait_responses ==
    { <<"Wait times can be so frustrating. How long did you have to wait approximately?">>,
      <<"I understand waiting is difficult. Did anyone communicate about the delay?">>,
      <<"That's a common concern we hear. Was there anything available to make the wait more comfortable?">> }

rude_responses ==
    { <<"I'm sorry you felt that way. No one should feel dismissed. Who was involved in that interaction?">>,
      <<"That's not the experience we want anyone to have. Can you describe what happened?">>,
      <<"Your feelings are valid. Would you like to share more details about that interaction?">> }

positives ==
    { <<"That's wonderful to hear! What made it such a positive experience?">>,
      <<"I'm so glad! Was there a particular person or aspect that stood out?">>,
      <<"That's great feedback! Would you recommend us to others? Why?">> }

friendly_responses ==
    { <<"It's great that the staff made a positive impression! Anyone specific you'd like to mention?">>,
      <<"We love hearing this! Friendly interactions make such a difference, don't they?">>,
      <<"That's exactly what we aim for. Was the rest of your visit equally positive?">> }

doctor_responses ==
    { <<"How was your interaction with the doctor? Did they address all your concerns?">>,
      <<"The doctor-patient relationship is so important. Did you feel heard?">>,
      <<"Was the doctor able to explain things in a way you understood?">> }

nurse_responses ==
    { <<"Nurses play such a vital role. How was your experience with them?">>,
      <<"Our nursing staff works hard. Did they make you feel comfortable?">>,
      <<"Were the nurses attentive to your needs?">> }

appointment_responses ==
    { <<"How was the appointment scheduling process?">>,
      <<"Was it easy to get an appointment at a time that worked for you?">>,
      <<"Did the appointment start on time?">> }

facility_responses ==
    { <<"The environment matters. Was the facility up to your expectations?">>,
      <<"Cleanliness is important to us. How did you find the facilities?">>,
      <<"What did you think about the overall atmosphere of our facility?">> }

defaults2 ==
    { <<"Thank you for sharing that. Is there anything specific about the staff you'd like to mention?">>,
      <<"I appreciate that feedback. What about the facilities - how did you find them?">>,
      <<"Got it. How was the communication throughout your visit?">> }

defaults3 ==
    { <<"That's helpful to know. Were there any surprises during your visit, good or bad?">>,
      <<"I see. If you could change one thing about your experience, what would it be?">>,
      <<"Thank you. Is there anything else that stands out in your memory?">> }

defaults4 ==
    { <<"You've shared some valuable insights. Any final thoughts before we wrap up?">>,
      <<"This is really helpful feedback. Anything else you'd like to add?">>,
      <<"I appreciate all you've shared. Is there anything we haven't covered?">> }

defaults5 ==
    { <<"Thank you for continuing to share. What else would you like to mention?">>,
      <<"I'm still listening. Feel free to share any other thoughts.">>,
      <<"Is there anything else about your experience you'd like to discuss?">>,
      <<"Your feedback is valuable. Please continue if there's more.">>,
      <<"I appreciate your openness. What else comes to mind?">> }

off_topic ==
    { <<"I appreciate the conversation! Though I'd love to hear more about your healthcare experience specifically. Anything else you'd like to share about your visit?">> }

\* len([m for m in messages if m.get("role") == "user"])
RECURSIVE UserCount(_)
UserCount(messages) ==
    IF messages = <<>> THEN 0
    ELSE (IF Head(messages).role = "user" THEN 1 ELSE 0) + UserCount(Tail(messages))

\* messages[-1]["content"].lower() if messages else ""
LastMessage(messages) ==
    IF messages = <<>> THEN <<>> ELSE Lower(messages[Len(messages)].content)

\* The same with the greeting kept for an empty history only.
ChatChoices_strict(last_message, num_exchanges) ==
    IF num_exchanges < 1 THEN greetings
    ELSE IF AnyIn(last_message, ChatNegativeWords) THEN negatives
    ELSE IF AnyIn(last_message, ChatWaitWords) THEN wait_responses
    ELSE IF AnyIn(last_message, ChatRudeWords) THEN rude_responses
    ELSE IF AnyIn(last_message, ChatPositiveWords) THEN positives
    ELSE IF AnyIn(last_message, ChatFriendlyWords) THEN friendly_responses
    ELSE IF AnyIn(last_message, DoctorWords) THEN doctor_responses
    ELSE IF AnyIn(last_message, NurseWords) THEN nurse_responses
    ELSE IF AnyIn(last_message, AppointmentWords) THEN appointment_responses
    ELSE IF AnyIn(last_message, FacilityWords) THEN facility_responses
    ELSE IF AnyIn(last_message, OffTopicWords) THEN off_topic
    ELSE IF num_exchanges = 2 THEN defaults2
    ELSE IF num_exchanges = 3 THEN defaults3
    ELSE IF num_exchanges = 4 THEN defaults4
    ELSE defaults5

\* The list random.choice draws the reply from.
ChatChoices(last_message, num_exchanges) ==
    IF num_exchanges <= 1 THEN greetings
    ELSE IF AnyIn(last_message, ChatNegativeWords) THEN negatives
    ELSE IF AnyIn(last_message, ChatWaitWords) THEN wait_responses
    ELSE IF AnyIn(last_message, ChatRudeWords) THEN rude_responses
    ELSE IF AnyIn(last_message, ChatPositiveWords) THEN positives
    ELSE IF AnyIn(last_message, ChatFriendlyWords) THEN friendly_responses
    ELSE IF AnyIn(last_message, DoctorWords) THEN doctor_responses
    ELSE IF AnyIn(last_message, NurseWords) THEN nurse_responses
    ELSE IF AnyIn(last_message, AppointmentWords) THEN appointment_responses
    ELSE IF AnyIn(last_message, FacilityWords) THEN facility_responses
    ELSE IF AnyIn(last_message, OffTopicWords) THEN off_topic
    ELSE IF num_exchanges = 2 THEN defaults2
    ELSE IF num_exchanges = 3 THEN defaults3
    ELSE IF num_exchanges = 4 THEN defaults4
    ELSE defaults5

\* MockProvider.chat_completion: the replies it can return.
mock_chat_completion(messages) == ChatChoices(LastMessage(messages), UserCount(messages))

-----------------------------------------------------------------------------
(* Each specification below drives one part of the program and leaves the   *)
(* other parts' variables at rest.                                          *)

NotCalled == [exc |-> "pending"]
NewSession == [messages |-> <<>>, created_at |-> 0, last_activity |-> 0, is_active |-> TRUE]
NoCall == [op |-> "none"]

NormUnused ==
    /\ raw = PyNone
    /\ result = NotCalled
    /\ npc = "off"

BufferUnused ==
    /\ conv = NewSession
    /\ appended = <<>>
    /\ now = 0
    /\ last = NoCall

NoSessions == [k \in {} |-> NewSession]
NoResponse == [status |-> 0]

\* The two request threads of the server, neither handling a request.
Threads == {"t1", "t2"}
Idle == [pc |-> "idle"]

NoThreads ==
    /\ inflight = [t \in Threads |-> Idle]
    /\ orphans = NoSessions

AppUnused ==
    /\ provider = "mock"
    /\ active_sessions = NoSessions
    /\ rows = <<>>
    /\ resp = NoResponse
    /\ call = NoCall
    /\ ended = {}
    /\ issued = 0
    /\ nreq = 0
    /\ NoThreads

CliUnused ==
    /\ cli_pc = "off"
    /\ cli_conversation = NewSession
    /\ printed = <<>>
    /\ chat = NoCall
    /\ turns = 0

-----------------------------------------------------------------------------
(* The normalizer as a call: SpecNorm.                                     *)

InitNorm ==
    /\ raw \in RawInputs
    /\ result = NotCalled
    /\ npc = "call"
    /\ BufferUnused
    /\ AppUnused
    /\ CliUnused

\* process_llm_output(raw) returns or raises.
Normalize ==
    /\ npc = "call"
    /\ result' = process_llm_output(raw)
    /\ npc' = "done"
    /\ UNCHANGED <<raw, bvars, avars, cvars>>

\* The record as a plain dict: what a caller gets back and can hand in again.
ConfidenceText(c) ==
    CASE c = "yes" -> <<"y","e","s">>
      [] c = "no" -> <<"n","o">>
      [] OTHER -> <<"p","a","r","t","i","a","l">>

AsPlainDict(r) ==
    PyDict([ satisfaction_score |-> PyInt(r.satisfaction_score),
             radar_metrics |-> PyDict([a \in DOMAIN r.radar_metrics |-> PyInt(r.radar_metrics[a])]),
             confidence_in_treatment |-> PyStr(ConfidenceText(r.confidence_in_treatment)),
             duration_satisfaction |-> PyInt(r.duration_satisfaction),
             staff_behavior |-> PyInt(r.staff_behavior),
             summary_bullets |-> PyList(AsStrs(r.summary_bullets)) ])

\* process_llm_output on the record the first call returned.
Renormalize ==
    /\ npc = "done"
    /\ ~Raised(result)
    /\ raw' = AsPlainDict(result.v)
    /\ result' = process_llm_output(AsPlainDict(result.v))
    /\ npc' = "again"
    /\ UNCHANGED <<bvars, avars, cvars>>

NextNorm == Normalize \/ Renormalize

SpecNorm == InitNorm /\ [][NextNorm]_vars

(* C1: process_llm_output never raises, whatever it is handed (None, a     *)
(* non-dict, an empty dict, fields of a wrong type, out-of-range numbers,  *)
(* non-numeric strings, NaN and +/-Infinity as floats or as strings).      *)
NormalizerNeverRaises == npc = "done" => ~Raised(result)

IsTrimmedNonEmpty(s) == s # <<>> /\ Strip(s) = s

ScoreRange == MinScore..MaxScore

\* The RatingRecord invariants of a returned record.
WellFormedRecord(r) ==
    /\ DOMAIN r = {"satisfaction_score", "radar_metrics", "confidence_in_treatment",
                   "duration_satisfaction", "staff_behavior", "summary_bullets"}
    /\ r.satisfaction_score \in ScoreRange
    /\ r.duration_satisfaction \in ScoreRange
    /\ r.staff_behavior \in ScoreRange
    /\ DOMAIN r.radar_metrics = AxisSet
    /\ \A a \in AxisSet : r.radar_metrics[a] \in ScoreRange
    /\ r.confidence_in_treatment \in {"yes", "no", "partial"}
    /\ Len(r.summary_bullets) \in 1..MaxBullets
    /\ \A i \in 1..Len(r.summary_bullets) : IsTrimmedNonEmpty(r.summary_bullets[i])

(* C2: whenever process_llm_output returns, the record has exactly the six *)
(* fields, the three scores and the five radar axes integers in [1,5], the  *)
(* confidence one of yes/no/partial, and 1 to 5 non-empty trimmed bullets.  *)
ReturnedRecordWellFormed ==
    (npc = "done" /\ result.exc = "none") => WellFormedRecord(result.v)

\* A return on an input with an out-of-range score and more than five bullets.
WitnessReturnedRecord ==
    /\ npc = "done" /\ ~Raised(result)
    /\ raw.t = "dict"
    /\ {"satisfaction_score", "summary_bullets"} \subseteq DOMAIN raw.d
    /\ raw.d["satisfaction_score"] = PyInt(7)
    /\ result.v.satisfaction_score = MaxScore
    /\ raw.d["summary_bullets"].t = "list"
    /\ Len(raw.d["summary_bullets"].l) > MaxBullets
    /\ Len(result.v.summary_bullets) = MaxBullets

(* C21: normalization is idempotent: when the normalizer returns a record, *)
(* normalizing that record again, as a plain dict, returns an equal record. *)
NormalizationIdempotent ==
    npc = "again" => (~Raised(result) /\ AsPlainDict(result.v) = raw)

\* The second call has returned on a record holding the full number of
\* bullets and a score that the first call clamped.
WitnessRenormalized ==
    /\ npc = "again"
    /\ ~Raised(result)
    /\ Len(result.v.summary_bullets) = MaxBullets
    /\ result.v.duration_satisfaction = MaxScore

\* The input as a dict (a non-dict is taken as the empty dict).
RawDict == IF raw.t = "dict" THEN raw.d ELSE EmptyDict

Midpoint == (MinScore + MaxScore) \div 2

\* The number a value stands for, when it stands for one.
NumberOf(x) == IF x.t = "bigint" THEN Ok(PosInf) ELSE ToFloat(x)

\* The stated policy on that number: truncated and clamped, else the midpoint.
PolicyScore(f) ==
    IF Raised(f) \/ f.v.k = "nan" THEN Midpoint
    ELSE IF f.v.k = "inf" THEN MaxScore
    ELSE IF f.v.k = "ninf" THEN MinScore
    ELSE Max(MinScore, Min(MaxScore, IF f.v.m >= 0 THEN f.v.m \div 10 ELSE -((-f.v.m) \div 10)))

PolicyField(d, key) == IF key \in DOMAIN d THEN PolicyScore(NumberOf(d[key])) ELSE Midpoint

ScoreFields == {"satisfaction_score", "duration_satisfaction", "staff_behavior"}

(* C22: every score field is the given number converted to an integer and  *)
(* clamped into [1,5] when the value can be coerced to a number, and the   *)
(* midpoint 3 when it cannot (null, a non-numeric string, a list, a dict,  *)
(* NaN) or the field is missing.                                           *)
ScoreClampedOrMidpoint ==
    npc = "done"
        => /\ ~Raised(result)
           /\ \A k \in ScoreFields : result.v[k] = PolicyField(RawDict, k)

FirstN(seq, n) == SubSeq(seq, 1, Min(n, Len(seq)))

\* The stated policy on a list of bullets: clean, drop the empty ones, keep
\* the first MaxBullets of what is left.
PolicyBullets(l) ==
    OrPlaceholder(FirstN(NonEmpty([i \in 1..Len(l) |-> clean_text(l[i])]), MaxBullets))

(* C23: for a list of any length, summary_bullets is the cleaned non-empty *)
(* elements in their order, truncated to the first 5 of them; the          *)
(* placeholder stands in only when no element is non-empty after cleaning. *)
BulletsCleanedThenTruncated ==
    (/\ npc = "done"
     /\ ~Raised(result)
     /\ "summary_bullets" \in DOMAIN RawDict
     /\ RawDict["summary_bullets"].t = "list")
        => result.v.summary_bullets = PolicyBullets(RawDict["summary_bullets"].l)

\* The stated mapping of a confidence value.
PolicyWord(word) ==
    IF word \in {<<"y","e","s">>, <<"y">>, <<"t","r","u","e">>, <<"1">>} THEN "yes"
    ELSE IF word \in {<<"n","o">>, <<"n">>, <<"f","a","l","s","e">>, <<"0">>} THEN "no"
    ELSE "partial"

PolicyConfidence(x) ==
    CASE x.t = "str" -> PolicyWord(Lower(Strip(x.s)))
      [] x.t = "bool" -> IF x.b THEN "yes" ELSE "no"
      [] x.t = "int" -> IF x.i = 1 THEN "yes" ELSE IF x.i = 0 THEN "no" ELSE "partial"
      [] OTHER -> "partial"

(* C24: confidence_in_treatment is "yes" for yes/y/true/1 and "no" for     *)
(* no/n/false/0, in any case and with surrounding whitespace ignored, for  *)
(* strings, booleans and integers alike, and "partial" for every other     *)
(* value, null and a missing field included.                               *)
ConfidenceMapped ==
    (npc = "done" /\ ~Raised(result))
        => result.v.confidence_in_treatment =
                IF "confidence_in_treatment" \in DOMAIN RawDict
                THEN PolicyConfidence(RawDict["confidence_in_treatment"])
                ELSE "partial"

\* The call has returned "yes" on a padded upper-case word.
WitnessConfidence ==
    /\ npc = "done"
    /\ ~Raised(result)
    /\ "confidence_in_treatment" \in DOMAIN RawDict
    /\ RawDict["confidence_in_treatment"] = PyStr(<<" ","Y","E","S","\t">>)
    /\ result.v.confidence_in_treatment = "yes"

-----------------------------------------------------------------------------
(* MockProvider.chat_completion as a call on any history: SpecMock.  The   *)
(* history is held in raw, the reply in result.                            *)

\* Histories have up to MaxMessages messages.
MaxMessages == 3

HistoryContents ==
    { <<"t","e","r","r","i","b","l","e">>,
      <<"I","t"," ","w","a","s"," ","T","E","R","R","I","B","L","E">>,
      <<"o","k">>,
      <<"s","o"," ","s","l","o","w">> }

\* The messages get_history hands over: a role and a trimmed content.
HistoryMessages == [role : {"user", "assistant"}, content : HistoryContents]

Histories == UNION { [1..n -> HistoryMessages] : n \in 0..MaxMessages }

InitMock ==
    /\ raw \in Histories
    /\ result = NotCalled
    /\ npc = "call"
    /\ BufferUnused
    /\ AppUnused
    /\ CliUnused

\* chat_completion(raw, system_prompt) returns one of the replies of its list.
ChatCompletion ==
    /\ npc = "call"
    /\ \E reply \in mock_chat_completion(raw) : result' = Ok(PyStr(reply))
    /\ npc' = "done"
    /\ UNCHANGED <<raw, bvars, avars, cvars>>

NextMock == ChatCompletion

SpecMock == InitMock /\ [][NextMock]_vars

\* The user messages of a history, in order.
UserMessages(messages) == SelectSeq(messages, LAMBDA m : m.role = "user")

\* The latest user message of the history contains the word, in any case.
LatestUserSays(messages, word) ==
    /\ UserMessages(messages) # <<>>
    /\ Contains(UserMessages(messages)[Len(UserMessages(messages))].content, word)

(* C12: for every history whose latest user message contains "terrible"    *)
(* (that message being the only user message included), the mock's reply   *)
(* is one of the fixed negative responses.                                 *)
TerribleGetsNegativeReply ==
    (npc = "done" /\ LatestUserSays(raw, <<"t","e","r","r","i","b","l","e">>))
        => (~Raised(result) /\ result.v.s \in negatives)

(* C13: for every history that is a first exchange (at most one user       *)
(* message, the empty history included), the call returns, and the reply   *)
(* is one of the fixed greetings.                                          *)
FirstExchangeGetsGreeting ==
    (npc = "done" /\ UserCount(raw) <= 1)
        => (result.exc = "none" /\ result.v.t = "str" /\ result.v.s \in greetings)

FirstExchangeOutcome(history) ==
    /\ npc = "done"
    /\ raw = history
    /\ result.exc = "none"
    /\ result.v.s \in greetings

\* The call has returned a greeting for the empty history, or for a history
\* whose only user message says "terrible" and is followed by a reply.
WitnessFirstExchange ==
    \/ FirstExchangeOutcome(<<>>)
    \/ /\ Len(raw) > 1
       /\ UserCount(raw) = 1
       /\ LatestUserSays(raw, <<"t","e","r","r","i","b","l","e">>)
       /\ FirstExchangeOutcome(raw)

-----------------------------------------------------------------------------
(* The mock chat backend asked twice: SpecMockTwice.                       *)

\* The same call once more, on the same history (and system prompt, which
\* chat_completion does not read); result keeps its outcome next to the
\* first one.
ChatCompletionAgain ==
    /\ npc = "done"
    /\ \E reply \in mock_chat_completion(raw) :
          result' = result @@ [again |-> PyStr(reply)]
    /\ npc' = "again"
    /\ UNCHANGED <<raw, bvars, avars, cvars>>

NextMockTwice == ChatCompletion \/ ChatCompletionAgain

SpecMockTwice == InitMock /\ [][NextMockTwice]_vars

(* C34: two calls of the mock chat backend with the same history and the   *)
(* same system prompt return the same reply.                               *)
MockChatDeterministic == npc = "again" => result.again = result.v

-----------------------------------------------------------------------------
(* conversation.py: ConversationManager                                    *)

\* Maximum messages before truncation (50 in the program; the model keeps
\* the policy and scales the number).
MAX_HISTORY_LENGTH == 3

\* __init__ at time t
NewConversation(t) ==
    [messages |-> <<>>, created_at |-> t, last_activity |-> t, is_active |-> TRUE]

\* _enforce_max_length keeping the oldest messages instead of the newest.
enforce_max_length_oldest(messages) ==
    IF Len(messages) > MAX_HISTORY_LENGTH
    THEN SubSeq(messages, 1, MAX_HISTORY_LENGTH)
    ELSE messages

\* _enforce_max_length
enforce_max_length(messages) ==
    IF Len(messages) > MAX_HISTORY_LENGTH
    THEN LET excess == Len(messages) - MAX_HISTORY_LENGTH
         IN  SubSeq(messages, excess + 1, Len(messages))
    ELSE messages

\* `not content`: None, the empty string, zero, False and empty containers.
Falsy(x) ==
    \/ x.t = "none"
    \/ x.t = "str" /\ x.s = <<>>
    \/ x.t = "int" /\ x.i = 0
    \/ x.t = "bool" /\ ~x.b
    \/ x.t = "list" /\ x.l = <<>>
    \/ x.t = "dict" /\ DOMAIN x.d = {}

\* content.strip(): only a str has the method.
StripOf(content) ==
    IF content.t = "str" THEN Ok(Strip(content.s)) ELSE Raise("AttributeError")

Message(role, content, t) == [role |-> role, content |-> content, timestamp |-> t]

\* The body shared by add_user_message and add_assistant_message.
AddChecked(c, role, content, t) ==
    IF Falsy(content) THEN Ok(c)
    ELSE LET stripped == StripOf(content)
         IN  IF Raised(stripped) THEN stripped
             ELSE IF stripped.v = <<>> THEN Ok(c)
             ELSE Ok([c EXCEPT
                        !.messages =
                            enforce_max_length(Append(@, Message(role, stripped.v, t))),
                        !.last_activity = t])

\* add_user_message
add_user_message(c, content, t) == AddChecked(c, "user", content, t)

\* add_assistant_message
add_assistant_message(c, content, t) == AddChecked(c, "assistant", content, t)

\* add_system_message: no emptiness test, no last_activity update, no truncation.
add_system_message(c, content, t) ==
    LET stripped == StripOf(content)
    IN  IF Raised(stripped) THEN stripped
        ELSE Ok([c EXCEPT !.messages = Append(@, Message("system", stripped.v, t))])

RoleContent(m) == [role |-> m.role, content |-> m.content]

\* The user and assistant messages of a message sequence, as {role, content}.
RECURSIVE Conversational(_)
Conversational(messages) ==
    IF messages = <<>> THEN <<>>
    ELSE (IF Head(messages).role \in {"user", "assistant"}
          THEN <<RoleContent(Head(messages))>> ELSE <<>>)
            \o Conversational(Tail(messages))

\* get_history
get_history(c) == Conversational(c.messages)

-----------------------------------------------------------------------------
(* The buffer under any sequence of appends: SpecBuf.                      *)

\* At most MaxAppends messages are appended in a run, and the clock stops at MaxTime.
MaxAppends == 4
MaxTime == 1

BufContents ==
    { PyStr(<<"h","i">>), PyStr(<<" ","o","k","\n">>), PyStr(<<>>), PyStr(<<" ","\t">>),
      PyNone }

Call(op, out) == [op |-> op, out |-> out.exc]

InitBuf ==
    /\ conv = NewConversation(0)
    /\ appended = <<>>
    /\ now = 0
    /\ last = NoCall
    /\ NormUnused
    /\ AppUnused
    /\ CliUnused

\* One call of an append operation on the object: the object changes as the
\* operation says (not at all when it raises).  The call counts as an append
\* of its trimmed content when it returns and the content is not blank (a
\* system message is appended even when blank).
Appending(op, role, content, out) ==
    /\ Len(appended) < MaxAppends
    /\ conv' = IF Raised(out) THEN conv ELSE out.v
    /\ appended' =
            IF ~Raised(out) /\ content.t = "str" /\ (role = "system" \/ Strip(content.s) # <<>>)
            THEN Append(appended, [role |-> role, content |-> Strip(content.s)])
            ELSE appended
    /\ last' = Call(op, out)
    /\ UNCHANGED <<now, nvars, avars, cvars>>

AddUserMessage ==
    \E content \in BufContents :
        Appending("add_user_message", "user", content, add_user_message(conv, content, now))

AddAssistantMessage ==
    \E content \in BufContents :
        Appending("add_assistant_message", "assistant", content,
                  add_assistant_message(conv, content, now))

AddSystemMessage ==
    \E content \in BufContents :
        Appending("add_system_message", "system", content,
                  add_system_message(conv, content, now))

\* Time passes between calls.
Tick ==
    /\ now < MaxTime
    /\ now' = now + 1
    /\ UNCHANGED <<conv, appended, last, nvars, avars, cvars>>

NextBuf == AddUserMessage \/ AddAssistantMessage \/ AddSystemMessage \/ Tick

SpecBuf == InitBuf /\ [][NextBuf]_vars

\* s is a suffix of t.
IsSuffix(s, t) == Len(s) <= Len(t) /\ SubSeq(t, Len(t) - Len(s) + 1, Len(t)) = s

(* C3: after any sequence of appends (user, assistant, system), history()  *)
(* has at most MAX_HISTORY_LENGTH entries, and they are the most recently   *)
(* appended user/assistant messages in their original relative order.       *)
HistoryBoundedAndMostRecent ==
    /\ Len(get_history(conv)) <= MAX_HISTORY_LENGTH
    /\ IsSuffix(get_history(conv), Conversational(appended))

\* An append has just evicted: more user/assistant messages were appended
\* than the history now holds.
WitnessHistoryEvicted ==
    /\ last.op \in {"add_user_message", "add_assistant_message"}
    /\ Len(Conversational(appended)) > MAX_HISTORY_LENGTH
    /\ Len(get_history(conv)) = MAX_HISTORY_LENGTH

(* C14: an append whose content is empty or blank after trimming changes   *)
(* nothing, for every role, so every message the buffer holds, of any      *)
(* role, has non-empty trimmed content.                                    *)
BlankAppendIsNoOp ==
    \A i \in 1..Len(conv.messages) : IsTrimmedNonEmpty(conv.messages[i].content)

\* Every message appended so far, of any role, as {role, content}.
Stored(messages) == [i \in 1..Len(messages) |-> RoleContent(messages[i])]

(* C15: after any sequence of appends of any roles the buffer holds at     *)
(* most MAX_HISTORY_LENGTH messages in all, and they are the most recently *)
(* appended ones: the oldest are evicted first.                            *)
TotalBoundedOldestEvicted ==
    /\ Len(conv.messages) <= MAX_HISTORY_LENGTH
    /\ IsSuffix(Stored(conv.messages), appended)

(* C16: last_activity is updated by every append that adds a message, of   *)
(* any role (it is never earlier than the time of a message the buffer     *)
(* holds), it is never earlier than created_at, and it never decreases.    *)
LastActivityFollowsAppends ==
    /\ [](/\ conv.created_at <= conv.last_activity
          /\ \A i \in 1..Len(conv.messages) :
                conv.messages[i].timestamp <= conv.last_activity)
    /\ [][conv.last_activity <= conv'.last_activity]_vars

\* get_conversation_transcript: one "Patient: ..." or "Assistant: ..." line per
\* user or assistant message, joined by newlines.
TranscriptLine(m) ==
    <<IF m.role = "user" THEN "Patient" ELSE "Assistant", ":", " ">> \o m.content

RECURSIVE JoinLines(_)
JoinLines(msgs) ==
    IF msgs = <<>> THEN <<>>
    ELSE IF Len(msgs) = 1 THEN TranscriptLine(Head(msgs))
    ELSE TranscriptLine(Head(msgs)) \o <<"\n">> \o JoinLines(Tail(msgs))

\* The transcript without the patient's lines.
get_conversation_transcript_assistant_only(c) ==
    JoinLines(SelectSeq(Conversational(c.messages), LAMBDA m : m.role = "assistant"))

\* The transcript with the system notes rendered as well.
get_conversation_transcript_with_notes(c) == JoinLines(c.messages)

get_conversation_transcript(c) == JoinLines(Conversational(c.messages))

\* "Patient" for the user, "Assistant" for the assistant.
Speaker(role) == IF role = "user" THEN "Patient" ELSE "Assistant"

\* The messages of the buffer that are not system notes.
Shown(c) == SelectSeq(c.messages, LAMBDA m : m.role # "system")

\* The lines are the renderings of the messages, one each and in order.
RendersAs(lines, shown) ==
    /\ Len(lines) = Len(shown)
    /\ \A i \in 1..Len(shown) :
          /\ shown[i].role \in {"user", "assistant"}
          /\ lines[i] = <<Speaker(shown[i].role), ":", " ">> \o shown[i].content

(* C33: in every state of the buffer, the transcript is empty when the     *)
(* buffer holds no message or only system notes; otherwise its lines (the  *)
(* parts between newlines) are as many as the non-system messages and, in  *)
(* insertion order, the i-th line is "Patient: <content>" for a user       *)
(* message and "Assistant: <content>" for an assistant message.            *)
TranscriptRendersNonSystem ==
    IF Shown(conv) = <<>> THEN get_conversation_transcript(conv) = <<>>
    ELSE RendersAs(SplitOn(get_conversation_transcript(conv), "\n"), Shown(conv))

\* A buffer with a system note between a user message and a reply.
WitnessTranscriptSkipsNote ==
    /\ Len(conv.messages) = 3
    /\ conv.messages[1].role = "user"
    /\ conv.messages[2].role = "system"
    /\ conv.messages[3].role = "assistant"
    /\ Len(SplitOn(get_conversation_transcript(conv), "\n")) = 2

-----------------------------------------------------------------------------
(* prompts.py                                                              *)

\* get_user_message: the transcript between the two fixed lines.
get_user_message(conversation) ==
    <<"Now analyze this conversation:", "\n", "\n">> \o conversation
        \o <<"\n", "\n", "Output the JSON response:">>

-----------------------------------------------------------------------------
(* llm_client.py: what a call of the gateway can do.                       *)

\* The hosted providers wrap every failure of the API call.
ApiErrorPrefix(backend, what) ==
    IF backend = "openai" THEN "OpenAI API " \o what \o " error:"
    ELSE "Anthropic API " \o what \o " error:"

ApiFailure(backend, what) ==
    RaiseMsg("Exception", <<ApiErrorPrefix(backend, what), " ", "Connection error.">>)

\* The mock provider has no failure of its own; a call can still die of
\* exhaustion (MemoryError, whose str() is empty).
Exhausted == RaiseMsg("MemoryError", <<>>)

MockChat(messages) == {Ok(PyStr(r)) : r \in mock_chat_completion(messages)} \cup {Exhausted}

\* A hosted chat call fails, returns a reply, or returns no content.
HostedChat(backend) ==
    { ApiFailure(backend, "chat"), Ok(PyStr(<<"Thanks for sharing.", "\n">>)), Ok(PyNone) }

\* LLMClient.chat on the configured provider.
ChatOutcomes(backend, messages) ==
    IF backend = "mock" THEN MockChat(messages) ELSE HostedChat(backend)

-----------------------------------------------------------------------------
(* LLMClient built from a configuration value, then asked for one chat     *)
(* reply: SpecGateway.  raw is the configuration (the provider name, the   *)
(* state of the hosted SDK, what the remote API answers to successive      *)
(* requests, the history), result the client and the outcome of chat.      *)

\* The SDK package is installed and its client builds, is not installed, or
\* its client constructor raises.
SdkStates == {"ok", "missing", "broken"}

SdkName(backend) == IF backend = "openai" THEN "OpenAI" ELSE "Anthropic"
SdkPackage(backend) == IF backend = "openai" THEN "openai" ELSE "anthropic"

Client(variant, warned) ==
    Ok([variant |-> variant, warned |-> warned, reply |-> NotCalled, remote |-> <<>>])

\* OpenAIProvider.__init__ / AnthropicProvider.__init__
HostedProviderInit(backend, sdk) ==
    IF sdk = "missing"
    THEN RaiseMsg("ImportError",
                  <<SdkPackage(backend) \o " package is required. Install with: pip install "
                        \o SdkPackage(backend)>>)
    ELSE IF sdk = "broken"
    THEN RaiseMsg("Exception",
                  <<"Failed to initialize " \o SdkName(backend) \o " client:", " ",
                    "The api_key client option must be set">>)
    ELSE Client(backend, FALSE)

\* LLMClient.__init__ raising on a name it does not know.
LLMClientInit_strict(name, sdk) ==
    IF Lower(name) = <<"o","p","e","n","a","i">> THEN HostedProviderInit("openai", sdk)
    ELSE IF Lower(name) = <<"a","n","t","h","r","o","p","i","c">>
    THEN HostedProviderInit("anthropic", sdk)
    ELSE IF Lower(name) = <<"m","o","c","k">> THEN Client("mock", FALSE)
    ELSE RaiseMsg("ValueError", <<"Unknown provider">>)

\* LLMClient.__init__
LLMClientInit(name, sdk) ==
    IF Lower(name) = <<"o","p","e","n","a","i">> THEN HostedProviderInit("openai", sdk)
    ELSE IF Lower(name) = <<"a","n","t","h","r","o","p","i","c">>
    THEN HostedProviderInit("anthropic", sdk)
    ELSE IF Lower(name) = <<"m","o","c","k">> THEN Client("mock", FALSE)
    ELSE Client("mock", TRUE)

\* What the remote API does with one request.
RemoteReply(text) == [ok |-> TRUE, text |-> text]
RemoteError(msg) == [ok |-> FALSE, msg |-> msg]

\* One request to the remote API: its outcome, and what is left of the
\* answers the API will give.
CreateCall(backend, remote) ==
    [ out |-> IF Head(remote).ok
              THEN Ok(PyStr(Head(remote).text))
              ELSE RaiseMsg("Exception",
                            <<ApiErrorPrefix(backend, "chat"), " ">> \o Head(remote).msg),
      remote |-> Tail(remote) ]

\* chat_completion of a hosted provider asking again after a failure.
hosted_chat_completion_retrying(backend, remote) ==
    IF Head(remote).ok THEN CreateCall(backend, remote)
    ELSE CreateCall(backend, Tail(remote))

\* OpenAIProvider.chat_completion / AnthropicProvider.chat_completion
hosted_chat_completion(backend, remote) == CreateCall(backend, remote)

\* LLMClient.chat
LLMClientChat(variant, messages, remote) ==
    IF variant = "mock"
    THEN {[out |-> Ok(PyStr(r)), remote |-> remote] : r \in mock_chat_completion(messages)}
    ELSE {hosted_chat_completion(variant, remote)}

ProviderNames ==
    { <<"m","o","c","k">>, <<"M","o","c","k">>, <<"o","p","e","n","a","i">>,
      <<"O","p","e","n","A","I">>, <<"a","n","t","h","r","o","p","i","c">>,
      <<"A","N","T","H","R","O","P","I","C">>, <<>>, <<"g","p","t">>,
      <<" ","o","p","e","n","a","i">>, <<"m","o","c","k","s">> }

VariantText(variant) ==
    CASE variant = "openai" -> <<"o","p","e","n","a","i">>
      [] variant = "anthropic" -> <<"a","n","t","h","r","o","p","i","c">>
      [] OTHER -> <<"m","o","c","k">>

KnownNames == {VariantText(v) : v \in {"openai", "anthropic", "mock"}}

ConnectionError == RemoteError(<<"Connection error.">>)
RateLimited == RemoteError(<<"Error code: 429">>)
Continuation == RemoteReply(<<"Thanks for sharing.">>)

RemoteScripts ==
    { <<Continuation, Continuation>>, <<ConnectionError, Continuation>>,
      <<RateLimited, ConnectionError>>, <<Continuation, RateLimited>>,
      <<RateLimited, Continuation>> }

InitGateway ==
    /\ raw \in [ name : ProviderNames, sdk : SdkStates, remote : RemoteScripts,
                 messages : {h \in Histories : Len(h) <= 1} ]
    /\ result = NotCalled
    /\ npc = "new"
    /\ BufferUnused
    /\ AppUnused
    /\ CliUnused

Construct ==
    /\ npc = "new"
    /\ result' = LLMClientInit(raw.name, raw.sdk)
    /\ npc' = "built"
    /\ UNCHANGED <<raw, bvars, avars, cvars>>

Chat ==
    /\ npc = "built"
    /\ ~Raised(result)
    /\ \E c \in LLMClientChat(result.v.variant, raw.messages, raw.remote) :
            result' = Ok([result.v EXCEPT !.reply = c.out, !.remote = c.remote])
    /\ npc' = "done"
    /\ UNCHANGED <<raw, bvars, avars, cvars>>

NextGateway == Construct \/ Chat

SpecGateway == InitGateway /\ [][NextGateway]_vars

(* C25: constructing the gateway with a configuration value other than the *)
(* two hosted provider names and "mock" never fails and gives the mock     *)
(* variant with a warning; the name is matched whatever its case, so the   *)
(* known names in any case give their own variant, without warning.        *)
UnknownProviderFallsBackToMock ==
    npc \in {"built", "done"}
        => /\ Lower(raw.name) \notin KnownNames
                => (~Raised(result) /\ result.v.variant = "mock" /\ result.v.warned)
           /\ Lower(raw.name) = <<"m","o","c","k">>
                => (~Raised(result) /\ result.v.variant = "mock" /\ ~result.v.warned)
           /\ (Lower(raw.name) \in KnownNames /\ ~Raised(result))
                => (Lower(raw.name) = VariantText(result.v.variant) /\ ~result.v.warned)

\* The client has been built from a name that is none of the three, and
\* from a known name written in another case.
WitnessUnknownProvider ==
    /\ npc = "built"
    /\ ~Raised(result)
    /\ raw.name \in {<<"g","p","t">>, <<" ","o","p","e","n","a","i">>}
    /\ result.v.warned

\* The requests the chat call has made.
RemoteCalls == Len(raw.remote) - Len(result.v.remote)

(* C26: a failure of the hosted backend during chat reaches the caller as  *)
(* an error carrying the provider's message; one chat call makes exactly   *)
(* one remote request, and no reply is returned in place of the failure.   *)
HostedFailureSurfaces ==
    (npc = "done" /\ result.v.variant # "mock")
        => /\ RemoteCalls = 1
           /\ ~Head(raw.remote).ok
                => /\ Raised(result.v.reply)
                   /\ result.v.reply.msg =
                        <<ApiErrorPrefix(result.v.variant, "chat"), " ">> \o Head(raw.remote).msg

\* The chat call has failed on a hosted backend whose next answer would
\* have been a reply.
WitnessHostedFailure ==
    /\ npc = "done"
    /\ result.v.variant = "anthropic"
    /\ raw.remote = <<RateLimited, Continuation>>
    /\ Raised(result.v.reply)

-----------------------------------------------------------------------------
(* app.py: the request handlers.                                           *)

Greeting ==
    <<"Hello! I'm here to listen about your healthcare experience today. What would you like to share?">>
ClosingMessage == <<"Thank you for your feedback. We are now analyzing your response.">>
FallbackNote == <<" ", "[Note: System fallback engaged due to connection error]">>
EndCommands ==
    { <<"e","n","d">>, <<"s","t","o","p">>, <<"f","i","n","i","s","h">>, <<"d","o","n","e">> }

\* f"System Error: {str(llm_error)}. Please check server logs."
SystemErrorReply(msg) == <<"System Error:", " ">> \o msg \o <<".", " ", "Please check server logs.">>

TypeName(x) ==
    CASE x.t = "none" -> "NoneType"
      [] x.t = "bigint" -> "int"
      [] OTHER -> x.t

\* x.name where x has no such attribute
NoAttribute(x, name) ==
    RaiseMsg("AttributeError",
             <<"'" \o TypeName(x) \o "' object has no attribute '" \o name \o "'">>)

\* jsonify(body), status
Json(status, body) == [status |-> status, body |-> body]
Failure(status, error) == Json(status, [success |-> FALSE, error |-> PyStr(error)])

\* What a handler does: the registry, the stored rows and the response after
\* it, and the texts of the exceptions raised while it ran.
Effect(sessions, stored, response, raised) ==
    [sessions |-> sessions, rows |-> stored, resp |-> response, raised |-> raised]

\* except Exception as e: return jsonify({"success": False, "error": str(e)}), 500
Crash(sessions, stored, e) == Effect(sessions, stored, Failure(500, e.msg), {e.msg})

\* `not session_id or session_id not in active_sessions`; the ids of the
\* requests are strings or null.
Registered(sessions, session_id) ==
    ~Falsy(session_id) /\ session_id.t = "str" /\ KeyOf(session_id.s) \in DOMAIN sessions

\* A registry whose entries all hold the one object.
Put_shared(sessions, key, c) == [k \in DOMAIN sessions \cup {key} |-> c]

Put(sessions, key, c) == (key :> c) @@ sessions
Drop(sessions, key) == [k \in DOMAIN sessions \ {key} |-> sessions[k]]

\* start_conversational_session without the greeting in the buffer.
start_conversational_session_silent(sessions, stored, session_id, t) ==
    Effect(Put(sessions, session_id, NewConversation(t)),
           stored,
           Json(200, [success |-> TRUE, message |-> PyStr(Greeting), is_active |-> TRUE,
                      session_id |-> session_id]),
           {})

\* start_conversational_session with session_id as the fresh uuid
start_conversational_session(sessions, stored, session_id, t) ==
    Effect(Put(sessions, session_id,
               add_assistant_message(NewConversation(t), PyStr(Greeting), t).v),
           stored,
           Json(200, [success |-> TRUE, message |-> PyStr(Greeting), is_active |-> TRUE,
                      session_id |-> session_id]),
           {})

\* The tail of end_conversational_session_internal, c being the conversation
\* after the closing message: the session stays in the registry.
Closed(sessions, stored, key, c) ==
    Effect(Put(sessions, key, c), stored,
           Json(200, [success |-> TRUE, message |-> PyStr(ClosingMessage),
                      transcript |-> PyStr(get_conversation_transcript(c)),
                      is_active |-> FALSE, should_analyze |-> TRUE, session_id |-> key]),
           {})

\* The same without the append of the closing message.
end_conversational_session_internal_unappended(sessions, stored, session_id, t) ==
    IF ~Registered(sessions, session_id)
    THEN Effect(sessions, stored, Failure(400, <<"Invalid session">>), {})
    ELSE Closed(sessions, stored, KeyOf(session_id.s), sessions[KeyOf(session_id.s)])

end_conversational_session_internal(sessions, stored, session_id, t) ==
    IF ~Registered(sessions, session_id)
    THEN Effect(sessions, stored, Failure(400, <<"Invalid session">>), {})
    ELSE Closed(sessions, stored, KeyOf(session_id.s),
                add_assistant_message(sessions[KeyOf(session_id.s)], PyStr(ClosingMessage), t).v)

\* end_conversational_session
end_conversational_session(sessions, stored, data, t) ==
    IF data.t # "dict" THEN Crash(sessions, stored, NoAttribute(data, "get"))
    ELSE end_conversational_session_internal(sessions, stored,
                                             Get(data.d, "session_id", PyNone), t)

\* The reply when the primary chat call raised: the mock's reply with the
\* fallback note, or the synthesized error reply when the mock raised too.
FallbackResponse(primary, fallback) ==
    IF Raised(fallback) THEN PyStr(SystemErrorReply(primary.msg))
    ELSE PyStr(fallback.v.s \o FallbackNote)

\* The try/except around llm_client.chat: primary is what the configured
\* provider did, fallback what a fresh mock client did when asked.
AssistantResponse(primary, fallback) ==
    IF Raised(primary) THEN FallbackResponse(primary, fallback) ELSE primary.v

RaisedInChat(primary, fallback) ==
    IF ~Raised(primary) THEN {}
    ELSE IF Raised(fallback) THEN {primary.msg, fallback.msg}
    ELSE {primary.msg}

\* The tail of send_message without the append of the reply.
Replied_unappended(sessions, stored, key, c, reply, raised, t) ==
    Effect(Put(sessions, key, c), stored,
           Json(200, [success |-> TRUE, message |-> reply, is_active |-> TRUE,
                      session_id |-> key]),
           raised)

\* The tail of send_message, c being the conversation after the user message.
Replied(sessions, stored, key, c, reply, raised, t) ==
    Effect(Put(sessions, key, add_assistant_message(c, reply, t).v), stored,
           Json(200, [success |-> TRUE, message |-> reply, is_active |-> TRUE,
                      session_id |-> key]),
           raised)

\* send_message from the session check on, user_message being stripped.
Routed(sessions, stored, session_id, user_message, primary, fallback, t) ==
    IF ~Registered(sessions, session_id)
    THEN Effect(sessions, stored, Failure(400, <<"Invalid or expired session">>), {})
    ELSE IF Lower(user_message) \in EndCommands
    THEN end_conversational_session_internal(sessions, stored, session_id, t)
    ELSE Replied(sessions, stored, KeyOf(session_id.s),
                 add_user_message(sessions[KeyOf(session_id.s)], PyStr(user_message), t).v,
                 AssistantResponse(primary, fallback), RaisedInChat(primary, fallback), t)

\* send_message from data.get('message', '').strip() on.
WithMessage(sessions, stored, d, message, primary, fallback, t) ==
    IF message.t # "str" THEN Crash(sessions, stored, NoAttribute(message, "strip"))
    ELSE IF Strip(message.s) = <<>>
    THEN Effect(sessions, stored, Failure(400, <<"Message cannot be empty">>), {})
    ELSE Routed(sessions, stored, Get(d, "session_id", PyNone), Strip(message.s),
                primary, fallback, t)

\* send_message
send_message(sessions, stored, data, primary, fallback, t) ==
    IF data.t # "dict" THEN Crash(sessions, stored, NoAttribute(data, "get"))
    ELSE WithMessage(sessions, stored, data.d, Get(data.d, "message", PyStr(<<>>)),
                     primary, fallback, t)

\* The request reaches llm_client.chat.
ReachesChat(sessions, data) ==
    /\ data.t = "dict"
    /\ Get(data.d, "message", PyStr(<<>>)).t = "str"
    /\ Strip(Get(data.d, "message", PyStr(<<>>)).s) # <<>>
    /\ Lower(Strip(Get(data.d, "message", PyStr(<<>>)).s)) \notin EndCommands
    /\ Registered(sessions, Get(data.d, "session_id", PyNone))

\* conversation.get_history() as handed to llm_client.chat by the request.
ChatHistory(sessions, data, t) ==
    IF ReachesChat(sessions, data)
    THEN get_history(add_user_message(sessions[KeyOf(data.d.session_id.s)],
                                      data.d.message, t).v)
    ELSE <<>>

\* storage.save_feedback: the CSV row of a feedback dict.
Row(feedback, t) ==
    [ timestamp |-> t,
      satisfaction_score |->
        IF "satisfaction_score" \in DOMAIN feedback THEN feedback.satisfaction_score ELSE 0,
      summary |-> IF "summary" \in DOMAIN feedback THEN feedback.summary ELSE <<>>,
      key_issues |-> IF "key_issues" \in DOMAIN feedback THEN feedback.key_issues ELSE <<>> ]

\* save_feedback appends the row, or fails and reports False (ignored here).
Saved(stored, feedback, saved, t) == IF saved THEN Append(stored, Row(feedback, t)) ELSE stored

\* The cleanup left out: the session stays registered.
Cleaned_kept(sessions, session_id) == sessions

\* if session_id in active_sessions: del active_sessions[session_id]
Cleaned(sessions, session_id) ==
    IF Registered(sessions, session_id) THEN Drop(sessions, KeyOf(session_id.s))
    ELSE sessions

\* The same with a save that must succeed: its failure leaves the handler
\* through the except clause.
Analyzed_storage_checked(sessions, stored, session_id, feedback, saved, t) ==
    IF Raised(feedback) THEN Crash(sessions, stored, feedback)
    ELSE IF ~saved THEN Crash(sessions, stored, RaiseMsg("OSError", <<"Permission denied">>))
    ELSE Effect(Cleaned(sessions, session_id), Saved(stored, feedback.v, saved, t),
                Json(200, [success |-> TRUE, feedback |-> feedback.v]), {})

\* analyze_conversational_feedback after process_llm_output.
Analyzed(sessions, stored, session_id, feedback, saved, t) ==
    IF Raised(feedback) THEN Crash(sessions, stored, feedback)
    ELSE Effect(Cleaned(sessions, session_id), Saved(stored, feedback.v, saved, t),
                Json(200, [success |-> TRUE, feedback |-> feedback.v]), {})

\* provider.analyze_conversation on the configured provider; hosted is what a
\* hosted provider does with the request.
AnalyzeConversation(backend, conversation, hosted) ==
    IF backend = "mock" THEN Ok(mock_analyze_conversation(conversation)) ELSE hosted

\* The named session's transcript first, the request's one for want of it.
TranscriptOf_session_first(sessions, transcript, session_id) ==
    IF Registered(sessions, session_id)
    THEN PyStr(get_conversation_transcript(sessions[KeyOf(session_id.s)]))
    ELSE transcript

\* The transcript of the request, else the one of the named session.
TranscriptOf(sessions, transcript, session_id) ==
    IF Falsy(transcript) /\ Registered(sessions, session_id)
    THEN PyStr(get_conversation_transcript(sessions[KeyOf(session_id.s)]))
    ELSE transcript

\* analyze_conversational_feedback from `if not transcript` on.
WithTranscript(sessions, stored, backend, transcript, session_id, hosted, saved, t) ==
    IF Falsy(transcript)
    THEN Effect(sessions, stored, Failure(400, <<"No transcript provided">>), {})
    ELSE Analyzed(sessions, stored, session_id,
                  process_llm_output(analyze_feedback(
                      AnalyzeConversation(backend, get_user_message(StrOf(transcript)), hosted))),
                  saved, t)

\* analyze_conversational_feedback
analyze_conversational_feedback(sessions, stored, backend, data, hosted, saved, t) ==
    IF data.t # "dict" THEN Crash(sessions, stored, NoAttribute(data, "get"))
    ELSE WithTranscript(sessions, stored, backend,
                        TranscriptOf(sessions, Get(data.d, "transcript", PyStr(<<>>)),
                                     Get(data.d, "session_id", PyNone)),
                        Get(data.d, "session_id", PyNone), hosted, saved, t)

-----------------------------------------------------------------------------
(* The web server under any sequence of requests: Spec.                    *)
(*                                                                         *)
(* The clock stands still in this specification, and display_text, a       *)
(* rendering of the feedback, is left out of the analyze response.         *)

\* A run handles at most MaxRequests requests.
MaxRequests == 3

\* The uuids start_conversational_session draws, in the order drawn.
SessionIds == <<"sid1", "sid2">>

Providers == {"mock", "openai", "anthropic"}

\* JSON bodies: null, or an object with some of the fields.
Optional(key, values) == {EmptyDict} \cup {(key :> v) : v \in values}
Bodies(A, B) == {PyNone} \cup {PyDict(a @@ b) : a \in A, b \in B}

RequestIds == {PyStr(<<SessionIds[i]>>) : i \in 1..Len(SessionIds)}
MessageValues ==
    { PyStr(<<"h","i">>), PyStr(<<" ","E","n","d"," ">>), PyStr(<<" ">>), PyInt(5) }
TranscriptValues == { PyStr(<<"Patient", ":", " ", "g","o","o","d">>) }

MessageBodies == Bodies(Optional("message", MessageValues), Optional("session_id", RequestIds))
EndBodies == Bodies({EmptyDict}, Optional("session_id", RequestIds))
AnalyzeBodies ==
    Bodies(Optional("transcript", TranscriptValues), Optional("session_id", RequestIds))

\* What a hosted provider's analyze_conversation does, by kind.
Response(kind, out) == [kind |-> kind, out |-> out]
Text(tokens) == Ok(PyStr(tokens))

FewResponses(backend) ==
    { Response("error", ApiFailure(backend, "analysis")),
      Response("json", Text(JsonDumps(PyDict(GoodDict)))),
      Response("json", Text(JsonDumps(PyDict(With(GoodDict, "satisfaction_score",
                                                   PyFloat(PosInf)))))),
      Response("garbage", Text(<<Bare("Sorry, I cannot help with that.")>>)) }

\* The caller's view of a request: which session it names ...
TargetOf(data) ==
    IF data.t # "dict" \/ Falsy(Get(data.d, "session_id", PyNone)) THEN "absent"
    ELSE IF ~Registered(active_sessions, data.d.session_id) THEN "unknown"
    ELSE IF KeyOf(data.d.session_id.s) \in ended THEN "ended"
    ELSE "active"

NamedId(data) == IF data.t = "dict" THEN Get(data.d, "session_id", PyNone) ELSE PyNone

\* ... and what its message is.
MessageOf(data) ==
    IF data.t # "dict" \/ "message" \notin DOMAIN data.d THEN "absent"
    ELSE IF data.d.message.t # "str" THEN "not-text"
    ELSE IF Strip(data.d.message.s) = <<>> THEN "blank"
    ELSE IF Lower(Strip(data.d.message.s)) \in EndCommands THEN "end"
    ELSE "text"

\* The sessions whose conversation a request created, changed or removed.
Changed(before, after) ==
    {k \in DOMAIN before \cup DOMAIN after :
        k \notin DOMAIN before \/ k \notin DOMAIN after \/ before[k] # after[k]}

\* A handler with effect e answers the request `about`, closing `closed`.
Answer(e, about, closed) ==
    /\ active_sessions' = e.sessions
    /\ rows' = e.rows
    /\ resp' = e.resp
    /\ call' = about @@ [raised |-> e.raised,
                         changed |-> Changed(active_sessions, e.sessions),
                         stored |-> Len(e.rows) - Len(rows)]
    /\ ended' = ended \cup closed
    /\ nreq' = nreq + 1
    /\ UNCHANGED <<provider, inflight, orphans, nvars, bvars, cvars>>

\* The same within the request budget of a run.
Respond(e, about, closed) == nreq < MaxRequests /\ Answer(e, about, closed)

\* The session a request closes: the one it names, when registered.
ClosedBy(data) ==
    IF TargetOf(data) \in {"active", "ended"} THEN {KeyOf(data.d.session_id.s)} ELSE {}

Init ==
    /\ provider \in Providers
    /\ active_sessions = NoSessions
    /\ rows = <<>>
    /\ resp = NoResponse
    /\ call = NoCall
    /\ ended = {}
    /\ issued = 0
    /\ nreq = 0
    /\ NoThreads
    /\ NormUnused
    /\ BufferUnused
    /\ CliUnused

\* POST /api/conversation/start
StartSession ==
    /\ issued < Len(SessionIds)
    /\ Respond(start_conversational_session(active_sessions, rows, SessionIds[issued + 1], now),
               [op |-> "start", known |-> DOMAIN active_sessions], {})
    /\ issued' = issued + 1

\* The chat calls a message request makes: the configured provider is asked
\* when the request gets that far, a fresh mock client when that call raised.
PrimaryCalls(data) ==
    IF ReachesChat(active_sessions, data)
    THEN ChatOutcomes(provider, ChatHistory(active_sessions, data, now))
    ELSE {NotCalled}

FallbackCalls(data, primary) ==
    IF ReachesChat(active_sessions, data) /\ Raised(primary)
    THEN MockChat(ChatHistory(active_sessions, data, now))
    ELSE {NotCalled}

\* POST /api/conversation/message
SendMessage ==
    \E data \in MessageBodies :
        \E primary \in PrimaryCalls(data) :
            \E fallback \in FallbackCalls(data, primary) :
                /\ Respond(send_message(active_sessions, rows, data, primary, fallback, now),
                           [op |-> "send_message", target |-> TargetOf(data),
                            session_id |-> NamedId(data), message |-> MessageOf(data),
                            primary |-> primary, fallback |-> fallback],
                           IF MessageOf(data) = "end" THEN ClosedBy(data) ELSE {})
                /\ UNCHANGED issued

\* POST /api/conversation/end
EndSession ==
    \E data \in EndBodies :
        /\ Respond(end_conversational_session(active_sessions, rows, data, now),
                   [op |-> "end", target |-> TargetOf(data), session_id |-> NamedId(data)], ClosedBy(data))
        /\ UNCHANGED issued

\* The transcript the caller of an analyze request supplied, or did not.
TranscriptGiven(data) == data.t = "dict" /\ ~Falsy(Get(data.d, "transcript", PyStr(<<>>)))

\* The request gets as far as the gateway.
ReachesGateway(data) == TranscriptGiven(data) \/ TargetOf(data) \in {"active", "ended"}

\* What the provider can do for an analyze request: the mock answers by its
\* rules, a hosted provider with one of `responses`.
AnalysisCalls(data, responses) ==
    IF ~ReachesGateway(data) THEN {Response("not-called", NotCalled)}
    ELSE IF provider = "mock" THEN {Response("mock", NotCalled)}
    ELSE responses

\* POST /api/conversation/analyze, a hosted provider answering from `responses`.
Analyze(responses) ==
    \E data \in AnalyzeBodies :
        \E hosted \in AnalysisCalls(data, responses) :
            \E saved \in (IF ReachesGateway(data) THEN BOOLEAN ELSE {FALSE}) :
                /\ Respond(analyze_conversational_feedback(active_sessions, rows, provider,
                                                           data, hosted.out, saved, now),
                           [op |-> "analyze", target |-> TargetOf(data),
                            session_id |-> NamedId(data), transcript |-> TranscriptGiven(data),
                            response |-> hosted.kind],
                           {})
                /\ UNCHANGED issued

AnalyzeFeedback == Analyze(FewResponses(provider))

Next == StartSession \/ SendMessage \/ EndSession \/ AnalyzeFeedback

Spec == Init /\ [][Next]_vars

Failed(outcome) == outcome.exc \notin {"none", "pending"}

InvalidSession == Failure(400, <<"Invalid or expired session">>)

(* C4: a message sent to a session that is unknown (never started) or      *)
(* ended (an end request has closed it) is answered with the invalid-      *)
(* session error and changes no buffer: nothing is appended after end.     *)
SendOutsideActiveRejected ==
    (/\ call.op = "send_message"
     /\ call.message \in {"text", "end"}
     /\ call.target \in {"absent", "unknown", "ended"})
        => (resp = InvalidSession /\ call.changed = {})

(* C5: analyze is accepted only for an ended session: an analyze request   *)
(* naming a session that is still active is answered with an error, and no *)
(* record is produced or persisted and the session does not become         *)
(* analyzed.                                                               *)
AnalyzeOnlyWhenEnded ==
    (call.op = "analyze" /\ call.target = "active")
        => (resp.status # 200 /\ ~resp.body.success /\ call.stored = 0 /\ call.changed = {})

\* The last message of a session's buffer, as {role, content}.
LastOf(c) == RoleContent(c.messages[Len(c.messages)])

(* C7: when the primary chat call and the mock fallback both fail for a    *)
(* message to an active session, the request still succeeds: the literal   *)
(* error reply is returned as the assistant message and appended to the    *)
(* buffer after the user's message, and the session stays registered and   *)
(* active.                                                                 *)
DoubleFailureStillReplies ==
    (/\ call.op = "send_message"
     /\ call.target = "active"
     /\ Failed(call.primary)
     /\ Failed(call.fallback))
        => /\ resp = Json(200, [success |-> TRUE,
                                message |-> PyStr(SystemErrorReply(call.primary.msg)),
                                is_active |-> TRUE,
                                session_id |-> KeyOf(call.session_id.s)])
           /\ KeyOf(call.session_id.s) \in DOMAIN active_sessions \ ended
           /\ LastOf(active_sessions[KeyOf(call.session_id.s)]) =
                [role |-> "assistant", content |-> SystemErrorReply(call.primary.msg)]

WitnessDoubleFailure ==
    /\ call.op = "send_message"
    /\ call.target = "active"
    /\ Failed(call.primary)
    /\ call.primary.msg # <<>>
    /\ Failed(call.fallback)
    /\ resp.status = 200
    /\ Len(active_sessions[KeyOf(call.session_id.s)].messages) = MAX_HISTORY_LENGTH

\* The last line of a transcript: what follows its last newline.
LastLine(text) ==
    SubSeq(text,
           1 + Max(0, CHOOSE i \in 0..Len(text) :
                        /\ i > 0 => text[i] = "\n"
                        /\ \A j \in (i + 1)..Len(text) : text[j] # "\n"),
           Len(text))

(* C18: an end request on an active session appends the closing message    *)
(* and returns the transcript taken after that append, whose last line is  *)
(* the assistant's closing message; it does not analyze: nothing is        *)
(* persisted and the session stays in the registry.                        *)
EndReturnsTranscriptOnly ==
    (call.op = "end" /\ call.target = "active")
        => /\ resp.status = 200
           /\ resp.body.success
           /\ resp.body.message = PyStr(ClosingMessage)
           /\ ~resp.body.is_active
           /\ LastLine(resp.body.transcript.s) = <<"Assistant", ":", " ">> \o ClosingMessage
           /\ KeyOf(call.session_id.s) \in DOMAIN active_sessions
           /\ LastOf(active_sessions[KeyOf(call.session_id.s)]) =
                [role |-> "assistant", content |-> ClosingMessage]
           /\ resp.body.transcript.s =
                get_conversation_transcript(active_sessions[KeyOf(call.session_id.s)])
           /\ call.stored = 0
           /\ "feedback" \notin DOMAIN resp.body

\* An end request has closed an active session that held an exchange.
WitnessEndAfterExchange ==
    /\ call.op = "end"
    /\ call.target = "active"
    /\ resp.status = 200
    /\ Len(active_sessions[KeyOf(call.session_id.s)].messages) = MAX_HISTORY_LENGTH
    /\ LastLine(resp.body.transcript.s) # resp.body.transcript.s

(* C19: an end request on a session that is not active (ended already, or  *)
(* unknown) is answered with the invalid-session error and changes no      *)
(* buffer: a second end appends no second closing message.                 *)
EndOutsideActiveRejected ==
    (call.op = "end" /\ call.target \in {"unknown", "ended"})
        => /\ resp = Failure(400, <<"Invalid session">>)
           /\ call.changed = {}

(* C20: a start request registers a session under an identifier that was   *)
(* not in the registry, active, with a buffer of exactly one message, the  *)
(* greeting with role assistant; no other session is replaced or changed.  *)
StartCreatesGreetedSession ==
    call.op = "start"
        => /\ resp.status = 200
           /\ resp.body.session_id \notin call.known
           /\ resp.body.session_id \in DOMAIN active_sessions \ ended
           /\ active_sessions[resp.body.session_id].is_active
           /\ Stored(active_sessions[resp.body.session_id].messages) =
                <<[role |-> "assistant", content |-> Greeting]>>
           /\ resp.body.message = PyStr(Greeting)
           /\ call.changed = {resp.body.session_id}
           /\ DOMAIN active_sessions = call.known \cup {resp.body.session_id}

\* A second session has been started beside one that holds an exchange.
WitnessSecondStart ==
    /\ call.op = "start"
    /\ call.known # {}
    /\ \E k \in call.known : Len(active_sessions[k].messages) > 1

\* The identifiers handed out so far.
IssuedIds == {SessionIds[i] : i \in 1..issued}

InvalidSessionReplies == {InvalidSession, Failure(400, <<"Invalid session">>)}

\* A message or end request on an identifier that was handed out and is no
\* longer registered: analyze has removed the session.
OnRemovedSession ==
    /\ call.op \in {"send_message", "end"}
    /\ call.target = "unknown"
    /\ KeyOf(call.session_id.s) \in IssuedIds

SubmittedTexts ==
    {Strip(m.s) : m \in {v \in MessageValues : v.t = "str"}} \ ({<<>>} \cup EndCommands)

\* The buffer ends with a submitted text as the user's message and an
\* assistant message after it.
EndsWithExchange(c) ==
    /\ Len(c.messages) >= 2
    /\ c.messages[Len(c.messages) - 1].role = "user"
    /\ c.messages[Len(c.messages) - 1].content \in SubmittedTexts
    /\ c.messages[Len(c.messages)].role = "assistant"

(* C35: after a submit of a text that is no end command on an active       *)
(* session, whatever the gateway returned (a reply, no reply text, or a    *)
(* failure), the request is answered 200, the session is still registered  *)
(* and its buffer ends with the user's message followed by an assistant    *)
(* message.                                                                *)
SubmitAppendsExchange ==
    (call.op = "send_message" /\ call.message = "text" /\ call.target = "active")
        => /\ resp.status = 200
           /\ KeyOf(call.session_id.s) \in DOMAIN active_sessions
           /\ EndsWithExchange(active_sessions[KeyOf(call.session_id.s)])

\* The text of a response the user sees: the reply, or the error.
VisibleText(response) ==
    IF "error" \in DOMAIN response.body THEN response.body.error.s
    ELSE IF response.body.message.t = "str" THEN response.body.message.s
    ELSE <<>>

(* C8: no response to a message, end or analyze request shows the text of  *)
(* an exception raised while the request was handled.                      *)
NoRawExceptionText ==
    call.op \in {"send_message", "end", "analyze"}
        => \A msg \in call.raised : msg # <<>> => ~IsInfix(msg, VisibleText(resp))

-----------------------------------------------------------------------------
(* One whole conversation on a server whose provider is the mock: start, a *)
(* message, an end command, the analysis of the returned transcript:       *)
(* SpecEndToEnd.                                                           *)

PatientSentence ==
    <<"T","h","e"," ","w","a","i","t"," ","w","a","s"," ","v","e","r","y"," ","l","o","n","g"," ","a","n","d"," ","t","h","e"," ","d","o","c","t","o","r"," ","w","a","s"," ","r","u","d","e">>

\* What the patient says in the one exchange of the conversation.
PatientMessages ==
    { PatientSentence,
      <<"I","t"," ","w","a","s"," ","f","i","n","e">>,
      <<"E","v","e","r","y","o","n","e"," ","w","a","s"," ","G","R","E","A","T">>,
      <<"T","h","e","y"," ","i","g","n","o","r","e","d"," ","m","e">> }

\* The end commands the client submits, as typed.
TypedEndCommands == { <<"e","n","d">>, <<" ","D","o","n","e"," ">> }

InitEndToEnd ==
    /\ provider = "mock"
    /\ active_sessions = NoSessions
    /\ rows = <<>>
    /\ resp = NoResponse
    /\ call = NoCall
    /\ ended = {}
    /\ issued = 0
    /\ nreq = 0
    /\ NoThreads
    /\ NormUnused
    /\ BufferUnused
    /\ CliUnused

\* The client names the session the start response gave it.
MessageBody(text, session_id) ==
    PyDict([message |-> PyStr(text), session_id |-> PyStr(<<session_id>>)])

\* POST /api/conversation/start, once.
Started ==
    /\ call = NoCall
    /\ Answer(start_conversational_session(active_sessions, rows, SessionIds[issued + 1], now),
              [op |-> "start", known |-> DOMAIN active_sessions], {})
    /\ issued' = issued + 1

\* POST /api/conversation/message with `data`; `said` is what the patient has
\* said in the conversation.
Submit(data, said) ==
    \E primary \in PrimaryCalls(data) :
        \E fallback \in FallbackCalls(data, primary) :
            /\ Answer(send_message(active_sessions, rows, data, primary, fallback, now),
                      [op |-> "send_message", target |-> TargetOf(data),
                       session_id |-> NamedId(data), message |-> MessageOf(data),
                       primary |-> primary, fallback |-> fallback, said |-> said],
                      IF MessageOf(data) = "end" THEN ClosedBy(data) ELSE {})
            /\ UNCHANGED issued

\* The patient's message follows the greeting.
Said ==
    /\ call.op = "start"
    /\ \E text \in PatientMessages : Submit(MessageBody(text, resp.body.session_id), text)

\* The end command follows the reply.
SaidEnd ==
    /\ call.op = "send_message"
    /\ call.message = "text"
    /\ \E text \in TypedEndCommands :
            Submit(MessageBody(text, resp.body.session_id), call.said)

\* The bodies of the analyze request: the transcript the end response
\* returned, with or without the session id.
TranscriptBodies(transcript, session_id) ==
    { PyDict([transcript |-> transcript]),
      PyDict([transcript |-> transcript, session_id |-> PyStr(<<session_id>>)]) }

\* POST /api/conversation/analyze on the returned transcript.
AnalyzedTranscript ==
    /\ call.op = "send_message"
    /\ call.message = "end"
    /\ \E data \in TranscriptBodies(resp.body.transcript, resp.body.session_id) :
        \E saved \in BOOLEAN :
            /\ Answer(analyze_conversational_feedback(active_sessions, rows, provider, data,
                                                      NotCalled, saved, now),
                      [op |-> "analyze", target |-> TargetOf(data),
                       session_id |-> NamedId(data), transcript |-> TranscriptGiven(data),
                       response |-> "mock", said |-> call.said],
                      {})
            /\ UNCHANGED issued

NextEndToEnd == Started \/ Said \/ SaidEnd \/ AnalyzedTranscript

SpecEndToEnd == InitEndToEnd /\ [][NextEndToEnd]_vars

(* C11: with the mock for chat and analysis, whichever canned reply the    *)
(* mock chooses: start, then "The wait was very long and the doctor was    *)
(* rude", then an end command, then analyze on the returned transcript     *)
(* gives a record with satisfaction_score <= 2, confidence_in_treatment    *)
(* no or partial, and between 1 and 5 summary bullets.                     *)
EndToEndNegativeRecord ==
    (call.op = "analyze" /\ call.said = PatientSentence)
        => /\ resp.status = 200
           /\ resp.body.success
           /\ resp.body.feedback.satisfaction_score <= 2
           /\ resp.body.feedback.confidence_in_treatment \in {"no", "partial"}
           /\ Len(resp.body.feedback.summary_bullets) \in 1..MaxBullets

WitnessEndToEnd ==
    /\ call.op = "analyze"
    /\ call.said = PatientSentence
    /\ call.transcript
    /\ resp.status = 200
    /\ Len(rows) = 1

-----------------------------------------------------------------------------
(* One analyze request on a fresh server, whatever the provider does:      *)
(* SpecAnalyze.                                                            *)

\* The JSON values a response may be the text of.
JsonValues == RawInputs \cup {NegativeAnalysis, PositiveAnalysis, RudeAnalysis, NeutralAnalysis}

GoodText == JsonDumps(PyDict(GoodDict))

\* A provider raises (an API error, a timeout), returns no text, returns the
\* text of a JSON value (bare, padded, or in a code fence), a truncated text,
\* or text that is not JSON.
HostedResponses(backend) ==
    {Response("error", ApiFailure(backend, "analysis")), Response("no-text", Ok(PyNone))}
    \cup {Response("json", Text(JsonDumps(v))) : v \in JsonValues}
    \cup {Response("json", Text(<<Ws>> \o JsonDumps(v) \o <<Ws>>)) :
            v \in {PyDict(GoodDict), PyList(<<>>)}}
    \cup {Response("json", Text(<<FenceJson, Ws>> \o JsonDumps(v) \o <<Ws, Fence, Ws>>)) :
            v \in {PyDict(GoodDict), NegativeAnalysis}}
    \cup {Response("json", Text(<<FenceJson, Ws>> \o GoodText))}
    \cup {Response("truncated", Text(SubSeq(GoodText, 1, n))) : n \in 0..(Len(GoodText) - 1)}
    \cup {Response("garbage", Text(t)) :
            t \in { <<Bare("Sorry, I cannot help with that.")>>,
                    <<Fence, Ws>> \o GoodText \o <<Ws, Fence>>,
                    GoodText \o <<Ws, Bare("Hope this helps!")>>,
                    <<Bare("Here is the analysis:"), Ws>> \o GoodText }}

AnalyzeAnyResponse == nreq = 0 /\ Analyze(HostedResponses(provider))

NextAnalyze == AnalyzeAnyResponse

SpecAnalyze == Init /\ [][NextAnalyze]_vars

(* C9: whatever the provider does for an analyze request (it raises,       *)
(* returns no text, or returns text that parses to any JSON value or does  *)
(* not parse), the request is answered with a feedback record that meets   *)
(* the RatingRecord invariants.                                            *)
AnalyzeAlwaysReturnsRecord ==
    (call.op = "analyze" /\ call.response # "not-called")
        => /\ resp.status = 200
           /\ resp.body.success
           /\ WellFormedRecord(resp.body.feedback)

AnalysisNotes == {<<"Analysis failed to parse.">>, <<"Analysis Error">>}

\* The record says in some field that the analysis failed.
CarriesNote(r) ==
    \/ \E i \in 1..Len(r.summary_bullets) : r.summary_bullets[i] \in AnalysisNotes
    \/ \E k \in DOMAIN r \cap {"summary", "key_issues", "note"} :
            r[k] \in AnalysisNotes \/ \E i \in DOMAIN r[k] : r[k][i] \in AnalysisNotes

(* C10: when the provider's text is not parseable JSON (truncated or        *)
(* garbage), the analyze request is answered with a record of              *)
(* satisfaction_score 3 that carries a note about the failed analysis and   *)
(* has every field present and in range.                                    *)
UnparseableYieldsNotedRecord ==
    (call.op = "analyze" /\ call.response \in {"truncated", "garbage"})
        => /\ resp.status = 200
           /\ WellFormedRecord(resp.body.feedback)
           /\ resp.body.feedback.satisfaction_score = 3
           /\ CarriesNote(resp.body.feedback)

-----------------------------------------------------------------------------
(* The web server handling requests on two threads: SpecConc.  Flask's     *)
(* development server (app.run) gives every request a thread of its own; a *)
(* handler runs to its next access of the shared registry, or to the       *)
(* return of a gateway call, in one step.  A ConversationManager that      *)
(* analyze deletes from the registry lives on in orphans, where a handler  *)
(* that looked it up before still reaches it.  A start request is one step: *)
(* its only access is the insertion under a fresh uuid.                    *)

\* A thread that has answered its request.
Done(op, session_id, response, landed) ==
    [pc |-> "done", op |-> op, session_id |-> session_id, resp |-> response, landed |-> landed]

\* A thread inside a handler.
Frame(pc, op, session_id, local) ==
    [pc |-> pc, op |-> op, session_id |-> session_id, local |-> local]

Free(t) == inflight[t].pc \in {"idle", "done"}

\* str(KeyError(session_id)), as the handlers' except clause reports it.
KeyErrorReply(key) == Failure(500, <<"'" \o key \o "'">>)

\* The object a handler holds a reference to.
Deref(key) == IF key \in DOMAIN active_sessions THEN active_sessions[key] ELSE orphans[key]

\* A handler changes the object it holds.
Store(key, c) ==
    IF key \in DOMAIN active_sessions
    THEN active_sessions' = Put(active_sessions, key, c) /\ UNCHANGED orphans
    ELSE orphans' = Put(orphans, key, c) /\ UNCHANGED active_sessions

Moves(t, frame) == inflight' = [inflight EXCEPT ![t] = frame]

ConcMessages == { <<"h","i">>, <<"E","n","d">> }

\* POST /api/conversation/start
ConcStart(t) ==
    /\ Free(t)
    /\ issued < Len(SessionIds)
    /\ nreq < MaxRequests
    /\ nreq' = nreq + 1
    /\ active_sessions' =
            start_conversational_session(active_sessions, rows, SessionIds[issued + 1], now).sessions
    /\ Moves(t, Done("start", PyStr(<<SessionIds[issued + 1]>>),
                     start_conversational_session(active_sessions, rows,
                                                  SessionIds[issued + 1], now).resp,
                     TRUE))
    /\ issued' = issued + 1
    /\ UNCHANGED <<provider, rows, resp, call, ended, orphans, nvars, bvars, cvars>>

\* `if not session_id or session_id not in active_sessions` of a handler
\* whose error is `invalid`; a registered session takes the handler to `next`.
Checked(t, op, session_id, local, invalid, next) ==
    /\ Moves(t, IF Registered(active_sessions, session_id)
                THEN Frame(next, op, session_id, local)
                ELSE Done(op, session_id, invalid, FALSE))
    /\ UNCHANGED <<provider, active_sessions, rows, resp, call, ended, issued, orphans,
                   nvars, bvars, cvars>>

\* POST /api/conversation/message, to the session check.
SendCheck(t) ==
    /\ Free(t)
    /\ nreq < MaxRequests
    /\ nreq' = nreq + 1
    /\ \E session_id \in RequestIds, user_message \in ConcMessages :
            Checked(t, "send_message", session_id, user_message, InvalidSession, "lookup")

\* send_message: conversation = active_sessions[session_id], then the end
\* command test, else add_user_message and the history for the chat call.
SendLookup(t) ==
    /\ inflight[t].pc = "lookup"
    /\ IF KeyOf(inflight[t].session_id.s) \notin DOMAIN active_sessions
       THEN /\ Moves(t, Done("send_message", inflight[t].session_id,
                             KeyErrorReply(KeyOf(inflight[t].session_id.s)), FALSE))
            /\ UNCHANGED active_sessions
       ELSE IF Lower(inflight[t].local) \in EndCommands
       THEN /\ Moves(t, Frame("end_check", "send_message", inflight[t].session_id, <<>>))
            /\ UNCHANGED active_sessions
       ELSE /\ active_sessions' =
                    Put(active_sessions, KeyOf(inflight[t].session_id.s),
                        add_user_message(active_sessions[KeyOf(inflight[t].session_id.s)],
                                         PyStr(inflight[t].local), now).v)
            /\ Moves(t, Frame("chat", "send_message", inflight[t].session_id,
                              get_history(add_user_message(
                                  active_sessions[KeyOf(inflight[t].session_id.s)],
                                  PyStr(inflight[t].local), now).v)))
    /\ UNCHANGED <<provider, rows, resp, call, ended, issued, nreq, orphans, nvars, bvars, cvars>>

\* send_message: the chat call returns (the fallback asked when it raised),
\* the reply is appended to the conversation and returned.
SendChat(t) ==
    /\ inflight[t].pc = "chat"
    /\ \E primary \in ChatOutcomes(provider, inflight[t].local) :
        \E fallback \in (IF Raised(primary) THEN MockChat(inflight[t].local) ELSE {NotCalled}) :
            /\ Store(KeyOf(inflight[t].session_id.s),
                     add_assistant_message(Deref(KeyOf(inflight[t].session_id.s)),
                                           AssistantResponse(primary, fallback), now).v)
            /\ Moves(t, Done("send_message", inflight[t].session_id,
                             Json(200, [success |-> TRUE,
                                        message |-> AssistantResponse(primary, fallback),
                                        is_active |-> TRUE,
                                        session_id |-> KeyOf(inflight[t].session_id.s)]),
                             KeyOf(inflight[t].session_id.s) \in DOMAIN active_sessions))
    /\ UNCHANGED <<provider, rows, resp, call, ended, issued, nreq, nvars, bvars, cvars>>

\* POST /api/conversation/end, to the session check of
\* end_conversational_session_internal.
EndCheck(t) ==
    /\ Free(t)
    /\ nreq < MaxRequests
    /\ nreq' = nreq + 1
    /\ \E session_id \in RequestIds :
            Checked(t, "end", session_id, <<>>, Failure(400, <<"Invalid session">>), "end_lookup")

\* The same check, reached from send_message on an end command.
EndCommandCheck(t) ==
    /\ inflight[t].pc = "end_check"
    /\ Checked(t, "send_message", inflight[t].session_id, <<>>,
               Failure(400, <<"Invalid session">>), "end_lookup")
    /\ UNCHANGED nreq

\* end_conversational_session_internal from the lookup on.
EndLookup(t) ==
    /\ inflight[t].pc = "end_lookup"
    /\ IF KeyOf(inflight[t].session_id.s) \notin DOMAIN active_sessions
       THEN /\ Moves(t, Done(inflight[t].op, inflight[t].session_id,
                             KeyErrorReply(KeyOf(inflight[t].session_id.s)), FALSE))
            /\ UNCHANGED active_sessions
       ELSE /\ active_sessions' =
                    end_conversational_session_internal(active_sessions, rows,
                                                        inflight[t].session_id, now).sessions
            /\ Moves(t, Done(inflight[t].op, inflight[t].session_id,
                             end_conversational_session_internal(active_sessions, rows,
                                                                 inflight[t].session_id, now).resp,
                             TRUE))
    /\ UNCHANGED <<provider, rows, resp, call, ended, issued, nreq, orphans, nvars, bvars, cvars>>

\* POST /api/conversation/analyze with a session_id and no transcript, to
\* the membership test of the transcript fallback.
AnalyzeCheck(t) ==
    /\ Free(t)
    /\ nreq < MaxRequests
    /\ nreq' = nreq + 1
    /\ \E session_id \in RequestIds :
            Checked(t, "analyze", session_id, <<>>,
                    Failure(400, <<"No transcript provided">>), "analyze_lookup")

\* transcript = active_sessions[session_id].get_conversation_transcript()
AnalyzeLookup(t) ==
    /\ inflight[t].pc = "analyze_lookup"
    /\ Moves(t, IF KeyOf(inflight[t].session_id.s) \notin DOMAIN active_sessions
                THEN Done("analyze", inflight[t].session_id,
                          KeyErrorReply(KeyOf(inflight[t].session_id.s)), FALSE)
                ELSE IF get_conversation_transcript(
                            active_sessions[KeyOf(inflight[t].session_id.s)]) = <<>>
                THEN Done("analyze", inflight[t].session_id,
                          Failure(400, <<"No transcript provided">>), TRUE)
                ELSE Frame("analyze_call", "analyze", inflight[t].session_id,
                           get_conversation_transcript(
                               active_sessions[KeyOf(inflight[t].session_id.s)])))
    /\ UNCHANGED <<provider, active_sessions, rows, resp, call, ended, issued, nreq, orphans,
                   nvars, bvars, cvars>>

\* The analysis of the transcript: the gateway call, the normalizer.
ConcFeedback(transcript, hosted) ==
    process_llm_output(analyze_feedback(
        AnalyzeConversation(provider, get_user_message(transcript), hosted)))

\* analyze_conversational_feedback once the gateway has answered: normalize,
\* save, and the membership test of the cleanup.
Normalized(t, feedback, saved) ==
    IF Raised(feedback)
    THEN /\ Moves(t, Done("analyze", inflight[t].session_id, Failure(500, feedback.msg), FALSE))
         /\ UNCHANGED rows
    ELSE /\ rows' = Saved(rows, feedback.v, saved, now)
         /\ Moves(t, IF Registered(active_sessions, inflight[t].session_id)
                     THEN Frame("cleanup", "analyze", inflight[t].session_id, feedback.v)
                     ELSE Done("analyze", inflight[t].session_id,
                               Json(200, [success |-> TRUE, feedback |-> feedback.v]), FALSE))

AnalyzeCall(t) ==
    /\ inflight[t].pc = "analyze_call"
    /\ \E hosted \in (IF provider = "mock" THEN {Response("mock", NotCalled)}
                      ELSE FewResponses(provider)) :
        \E saved \in BOOLEAN :
            Normalized(t, ConcFeedback(inflight[t].local, hosted.out), saved)
    /\ UNCHANGED <<provider, active_sessions, resp, call, ended, issued, nreq, orphans,
                   nvars, bvars, cvars>>

\* del active_sessions[session_id], and the response.
AnalyzeCleanup(t) ==
    /\ inflight[t].pc = "cleanup"
    /\ IF KeyOf(inflight[t].session_id.s) \notin DOMAIN active_sessions
       THEN /\ Moves(t, Done("analyze", inflight[t].session_id,
                             KeyErrorReply(KeyOf(inflight[t].session_id.s)), FALSE))
            /\ UNCHANGED <<active_sessions, orphans>>
       ELSE /\ active_sessions' = Drop(active_sessions, KeyOf(inflight[t].session_id.s))
            /\ orphans' = Put(orphans, KeyOf(inflight[t].session_id.s),
                              active_sessions[KeyOf(inflight[t].session_id.s)])
            /\ Moves(t, Done("analyze", inflight[t].session_id,
                             Json(200, [success |-> TRUE, feedback |-> inflight[t].local]), TRUE))
    /\ UNCHANGED <<provider, rows, resp, call, ended, issued, nreq, nvars, bvars, cvars>>

\* A step inside a handler that waits for nothing but the processor, the
\* return of a gateway call, and the arrival of a request.
Runs(t) ==
    \/ SendLookup(t)
    \/ EndCommandCheck(t)
    \/ EndLookup(t)
    \/ AnalyzeLookup(t)
    \/ AnalyzeCleanup(t)

Returns(t) == SendChat(t) \/ AnalyzeCall(t)

Arrives(t) == ConcStart(t) \/ SendCheck(t) \/ EndCheck(t) \/ AnalyzeCheck(t)

NextConc == \E t \in Threads : Arrives(t) \/ Runs(t) \/ Returns(t)

SpecConc == Init /\ [][NextConc]_vars

\* The scheduler runs every thread that can run: a handler step that waits
\* for nothing but the processor is eventually taken.  Nothing makes a
\* request arrive or the remote API answer.
SpecConcLive == SpecConc /\ \A t \in Threads : WF_vars(Runs(t))

Answered(t) == inflight[t].pc = "done"

(* C27: under any interleaving of start, message, end and analyze requests *)
(* the registry is not corrupted: a request on a session identifier either *)
(* operates on the registered session or gets the invalid-session error,   *)
(* also when an analyze request deletes the session between the request's  *)
(* membership test and its lookup or delete.                               *)
RegistrySafeUnderRaces ==
    \A t \in Threads :
        /\ (Answered(t) /\ inflight[t].op \in {"send_message", "end"})
                => \/ inflight[t].resp \in InvalidSessionReplies
                   \/ (inflight[t].resp.status = 200 /\ inflight[t].landed)
        /\ (Answered(t) /\ inflight[t].op = "analyze")
                => inflight[t].resp # KeyErrorReply(KeyOf(inflight[t].session_id.s))

Keys == {SessionIds[i] : i \in 1..Len(SessionIds)}

\* The message sequence of a session's buffer, wherever the object is.
Buffer(k) ==
    IF k \in DOMAIN active_sessions THEN active_sessions[k].messages
    ELSE IF k \in DOMAIN orphans THEN orphans[k].messages
    ELSE <<>>

\* The request thread t is working on in a step: the one it accepts, or the
\* one it is inside.
Request(t) == IF Free(t) THEN inflight'[t] ELSE inflight[t]

ActsOn(t, k) ==
    /\ inflight'[t] # inflight[t]
    /\ Request(t).pc # "idle"
    /\ Request(t).session_id = PyStr(<<k>>)

(* C28: sessions are isolated: in every step of every interleaving, the    *)
(* message sequence of a session's buffer changes only in a step of a      *)
(* request on that session (start, message with its pending gateway call,  *)
(* end, analyze); a request on session A never changes session B's buffer. *)
SessionsIsolated ==
    [][\A k \in Keys : Buffer(k)' # Buffer(k) => \E t \in Threads : ActsOn(t, k)]_vars

\* A message request waits for its gateway call on one session while the
\* other thread has created another session.
WitnessPendingBesideOther ==
    \E t, u \in Threads :
        /\ inflight[t].pc = "chat"
        /\ inflight[u].pc = "done"
        /\ inflight[u].op = "start"
        /\ inflight[u].session_id # inflight[t].session_id
        /\ Buffer(KeyOf(inflight[u].session_id.s)) # <<>>
        /\ Len(Buffer(KeyOf(inflight[t].session_id.s))) > 1

(* C30: no session is retained indefinitely: every session that is started *)
(* is eventually removed from the registry, also one the caller abandons   *)
(* and one whose analyze request fails.                                    *)
EverySessionRemoved ==
    \A k \in Keys : (k \in DOMAIN active_sessions) ~> (k \notin DOMAIN active_sessions)


-----------------------------------------------------------------------------
(* main.py: the conversation loop of the CLI and the analysis after it:    *)
(* SpecCli.  The run is taken up where the loop begins; voice is off.      *)

\* The loop makes at most MaxTurns passes in a run.
MaxTurns == 3

InitialGreeting ==
    <<"Hello! Thank you for speaking with us today. To start, how was your overall experience at the clinic?">>

\* What the user types at "You: ".
CliInputs == { <<>>, <<"h","i">>, <<" ","E","N","D"," ">>, <<"b","a","d">>, <<"S","t","o","p">> }

Line(kind, text) == [kind |-> kind, text |-> text]

InitCli ==
    /\ NormUnused
    /\ BufferUnused
    /\ provider \in Providers
    /\ cli_pc = "chat"
    /\ cli_conversation = add_assistant_message(NewConversation(now), PyStr(InitialGreeting), now).v
    /\ printed = <<Line("assistant", InitialGreeting)>>
    /\ chat = NoCall
    /\ turns = 0
    /\ rows = <<>>
    /\ active_sessions = NoSessions
    /\ resp = NoResponse
    /\ call = NoCall
    /\ ended = {}
    /\ issued = 0
    /\ nreq = 0
    /\ NoThreads

\* The pass asks the gateway for a reply.
CliReachesChat(user_text) ==
    user_text # <<>> /\ Lower(Strip(user_text)) # <<"e","n","d">>

CliCalls(user_text) ==
    IF CliReachesChat(user_text)
    THEN ChatOutcomes(provider,
                      get_history(add_user_message(cli_conversation, PyStr(user_text), now).v))
    ELSE {NotCalled}

\* The state of the loop after a pass: where it goes, the conversation, and
\* what the pass printed.
Pass(pc, c, lines) == [pc |-> pc, cli_conversation |-> c, lines |-> lines]

\* print(f"Assistant: {assistant_response}"); add_assistant_message
CliReplied(c, reply) ==
    Pass("chat", add_assistant_message(c, reply, now).v, <<Line("assistant", StrOf(reply))>>)

\* One pass of `while True`, c being the conversation after the user message:
\* any exception ends the loop with a printed error.
CliChatted(c, primary) ==
    IF Raised(primary) THEN Pass("analysis", c, <<Line("error", primary.msg)>>)
    ELSE CliReplied(c, primary.v)

LoopPass(user_text, primary) ==
    IF user_text = <<>> THEN Pass("chat", cli_conversation, <<>>)
    ELSE IF Lower(Strip(user_text)) = <<"e","n","d">>
    THEN Pass("analysis", cli_conversation, <<Line("status", <<"[Ending session...]">>)>>)
    ELSE CliChatted(add_user_message(cli_conversation, PyStr(user_text), now).v, primary)

Looped(pass, user_text, primary) ==
    /\ cli_pc' = pass.pc
    /\ cli_conversation' = pass.cli_conversation
    /\ printed' = printed \o pass.lines
    /\ chat' = [op |-> "pass", user_text |-> user_text, primary |-> primary]
    /\ turns' = turns + 1
    /\ UNCHANGED <<avars, nvars, bvars>>

\* The user types a line.
Exchange ==
    /\ cli_pc = "chat"
    /\ turns < MaxTurns
    /\ \E user_text \in CliInputs :
        \E primary \in CliCalls(user_text) :
            Looped(LoopPass(user_text, primary), user_text, primary)

\* The analysis phase after process_llm_output.
CliAnalyzed(feedback, saved) ==
    IF Raised(feedback)
    THEN [rows |-> rows, lines |-> <<Line("analysis-failed", feedback.msg)>>]
    ELSE [rows |-> Saved(rows, feedback.v, saved, now),
          lines |-> <<[kind |-> "feedback", feedback |-> feedback.v],
                      Line("status", IF saved THEN <<"Saved to feedback_data.csv">>
                                     ELSE <<"X Error saving data">>)>>]

CliClosed(done) ==
    /\ cli_pc' = "closed"
    /\ rows' = done.rows
    /\ printed' = printed \o done.lines \o <<Line("status", <<"Session Closed.">>)>>
    /\ UNCHANGED <<cli_conversation, chat, turns, provider, active_sessions, resp, call, ended,
                   issued, nreq, inflight, orphans, nvars, bvars>>

\* The analysis phase: the transcript is analyzed, normalized, shown and saved.
CliAnalysis ==
    /\ cli_pc = "analysis"
    /\ \E hosted \in (IF provider = "mock" THEN {Response("mock", NotCalled)}
                      ELSE FewResponses(provider)), saved \in BOOLEAN :
        CliClosed(CliAnalyzed(
            process_llm_output(analyze_feedback(
                AnalyzeConversation(provider,
                                    get_user_message(get_conversation_transcript(cli_conversation)),
                                    hosted.out))),
            saved))

NextCli == Exchange \/ CliAnalysis

SpecCli == InitCli /\ [][NextCli]_vars

\* The last line printed.
LastPrinted == printed[Len(printed)]

(* C6: in the CLI loop too, when the primary chat call fails the user gets *)
(* an assistant reply from the one fallback attempt: the mock's reply with  *)
(* the fallback marker (or, the mock failing too, the literal error reply), *)
(* and that reply is appended to the buffer.                                *)
CliFallsBackToMock ==
    (chat.op = "pass" /\ cli_pc # "closed" /\ Failed(chat.primary))
        => /\ LastPrinted.kind = "assistant"
           /\ \/ EndsWith(LastPrinted.text, FallbackNote)
              \/ LastPrinted.text = SystemErrorReply(chat.primary.msg)
           /\ LastOf(cli_conversation) = [role |-> "assistant", content |-> LastPrinted.text]

\* The user messages of the conversation that are end commands.
CommandsKept(c) ==
    {i \in 1..Len(c.messages) :
        c.messages[i].role = "user" /\ Lower(c.messages[i].content) \in EndCommands}

(* C17: in the CLI loop, a line that equals "end", "stop", "finish" or     *)
(* "done" in any case ends the session as an explicit end does: the loop   *)
(* is left, the closing message is the last message of the buffer, and the *)
(* command is neither appended as a user message nor sent to the gateway.  *)
EndCommandEndsSession ==
    (chat.op = "pass" /\ cli_pc # "closed" /\ Lower(Strip(chat.user_text)) \in EndCommands)
        => /\ cli_pc = "analysis"
           /\ chat.primary = NotCalled
           /\ CommandsKept(cli_conversation) = {}
           /\ LastOf(cli_conversation) = [role |-> "assistant", content |-> ClosingMessage]

-----------------------------------------------------------------------------
(* The entry points of analyze: SpecEntry.                                 *)
(*                                                                         *)
(* An analyze request reaches a server whose registry is empty or holds    *)
(* one session (greeted, after an exchange, or ended); a start request and *)
(* a message to the new session follow it.  The record of the analyze      *)
(* request keeps its body, the conversation handed to the gateway and what *)
(* became of save_feedback.                                                *)

GivenTranscripts ==
    { PyStr(<<"Patient", ":", " ", "g","o","o","d">>),
      PyStr(<<"Patient", ":", " ", "r","u","d","e">>),
      PyStr(<<" ">>),
      PyStr(<<>>) }

EntryBodies ==
    Bodies(Optional("transcript", GivenTranscripts), Optional("session_id", RequestIds))

\* A hosted provider fails, or answers with a document.
EntryResponses(backend) ==
    { Response("error", ApiFailure(backend, "analysis")),
      Response("json", Text(JsonDumps(PyDict(GoodDict)))) }

\* The server before the analyze request: its registry, the sessions an end
\* request has closed and the number of identifiers drawn.
Server(sessions, closed) ==
    [sessions |-> sessions, ended |-> closed, issued |-> Cardinality(DOMAIN sessions)]

Greeted == start_conversational_session(NoSessions, <<>>, SessionIds[1], 0).sessions

\* The patient's one message and the reply to it.
Complaint == PyStr(<<"i","t"," ","w","a","s"," ","t","e","r","r","i","b","l","e">>)
Exchanged ==
    send_message(Greeted, <<>>,
                 PyDict([message |-> Complaint, session_id |-> PyStr(<<SessionIds[1]>>)]),
                 Ok(PyStr(<<"That's really concerning to hear. Your experience matters. What specifically went wrong?">>)),
                 NotCalled, 0).sessions

EndedSession(sessions) ==
    end_conversational_session(sessions, <<>>,
                               PyDict([session_id |-> PyStr(<<SessionIds[1]>>)]), 0).sessions

Servers ==
    { Server(NoSessions, {}), Server(Greeted, {}), Server(Exchanged, {}),
      Server(EndedSession(Greeted), {SessionIds[1]}),
      Server(EndedSession(Exchanged), {SessionIds[1]}) }

InitEntry ==
    /\ provider \in Providers
    /\ \E s \in Servers :
          /\ active_sessions = s.sessions
          /\ ended = s.ended
          /\ issued = s.issued
    /\ rows = <<>>
    /\ resp = NoResponse
    /\ call = NoCall
    /\ nreq = 0
    /\ NoThreads
    /\ NormUnused
    /\ BufferUnused
    /\ CliUnused

\* user_message = get_user_message(transcript), the argument of
\* llm_client.analyze_feedback, when the handler gets that far.
Conversation(sessions, data) ==
    IF data.t # "dict" THEN NotCalled
    ELSE IF Falsy(TranscriptOf(sessions, Get(data.d, "transcript", PyStr(<<>>)),
                               Get(data.d, "session_id", PyNone)))
    THEN NotCalled
    ELSE Ok(PyStr(get_user_message(StrOf(
            TranscriptOf(sessions, Get(data.d, "transcript", PyStr(<<>>)),
                         Get(data.d, "session_id", PyNone))))))

\* feedback = analyzer.process_llm_output(llm_response), when the handler
\* gets that far.
Feedback(sent, hosted) ==
    IF sent = NotCalled THEN NotCalled
    ELSE process_llm_output(analyze_feedback(AnalyzeConversation(provider, sent.v.s, hosted)))

\* storage.save_feedback(feedback): called once the record is there; it
\* stores the row, or fails and returns False.
SaveCall(feedback, saved) ==
    IF feedback.exc # "none" THEN "not-called" ELSE IF saved THEN "stored" ELSE "failed"

EntryAnswer(e, data, hosted, saved) ==
    Answer(e, [op |-> "analyze", target |-> TargetOf(data), session_id |-> NamedId(data),
               transcript |-> TranscriptGiven(data), response |-> hosted.kind,
               data |-> data, sent |-> Conversation(active_sessions, data),
               save |-> SaveCall(Feedback(Conversation(active_sessions, data), hosted.out),
                                 saved)], {})

\* POST /api/conversation/analyze, the first request.
AnalyzeEntry ==
    /\ call.op = "none"
    /\ \E data \in EntryBodies :
        \E hosted \in AnalysisCalls(data, EntryResponses(provider)) :
            \E saved \in (IF ReachesGateway(data) THEN BOOLEAN ELSE {FALSE}) :
                EntryAnswer(analyze_conversational_feedback(active_sessions, rows, provider,
                                                            data, hosted.out, saved, now),
                            data, hosted, saved)
    /\ UNCHANGED issued

\* POST /api/conversation/start after it; the record keeps what the analyze
\* request did.
StartAfter ==
    /\ call.op = "analyze"
    /\ issued < Len(SessionIds)
    /\ Answer(start_conversational_session(active_sessions, rows, SessionIds[issued + 1], now),
              [op |-> "start", known |-> DOMAIN active_sessions, before |-> call], {})
    /\ issued' = issued + 1

\* The message of the patient to the session just started.
FirstMessage == PyDict([message |-> PyStr(<<"h","i">>), session_id |-> PyStr(<<SessionIds[issued]>>)])

\* POST /api/conversation/message to the new session.
SubmitAfter ==
    /\ call.op = "start"
    /\ \E primary \in PrimaryCalls(FirstMessage) :
          \E fallback \in FallbackCalls(FirstMessage, primary) :
              Answer(send_message(active_sessions, rows, FirstMessage, primary, fallback, now),
                     [op |-> "send_message", target |-> TargetOf(FirstMessage),
                      session_id |-> NamedId(FirstMessage), before |-> call.before], {})
    /\ UNCHANGED issued

NextEntry == AnalyzeEntry \/ StartAfter \/ SubmitAfter

SpecEntry == InitEntry /\ [][NextEntry]_vars

\* The record the mock provider's analysis of a conversation comes to.
MockRecord(conversation) ==
    process_llm_output(analyze_feedback(Ok(mock_analyze_conversation(conversation)))).v

\* The analysis of `transcript` has been made: that text, between the two
\* lines of the prompt, went to the gateway, and with the mock provider the
\* response carries the record of that text.
AnalysisOf(transcript, sent, response) ==
    /\ sent = Ok(PyStr(get_user_message(transcript)))
    /\ provider = "mock" =>
          response = Json(200, [success |-> TRUE,
                                feedback |-> MockRecord(get_user_message(transcript))])

\* An analyze request has just been answered.
AnalyzeStep == call.op = "none" /\ call'.op = "analyze"

(* C31: an analyze request that carries a non-empty transcript has that    *)
(* transcript analyzed, whether or not it also names a registered session; *)
(* the transcript of the named session's buffer is analyzed only when the  *)
(* request carries no transcript (none, or an empty one); with neither,    *)
(* nothing goes to the gateway.                                            *)
ExplicitTranscriptPrecedes ==
    [][AnalyzeStep =>
        IF call'.transcript
        THEN AnalysisOf(call'.data.d.transcript.s, call'.sent, resp')
        ELSE IF call'.target \in {"active", "ended"}
        THEN AnalysisOf(get_conversation_transcript(
                            active_sessions[KeyOf(call'.data.d.session_id.s)]),
                        call'.sent, resp')
        ELSE call'.sent = NotCalled]_vars

\* The mock provider has analyzed the transcript "Patient: good" of a request
\* that also named a registered session, and has answered with the record of
\* a satisfied patient.
WitnessExplicitTranscript ==
    /\ call.op = "analyze"
    /\ provider = "mock"
    /\ call.target \in {"active", "ended"}
    /\ call.sent = Ok(PyStr(get_user_message(<<"Patient", ":", " ", "g","o","o","d">>)))
    /\ resp.status = 200
    /\ resp.body.feedback.satisfaction_score = 5

\* The record an analyze request is answered with when its analysis got as
\* far as save_feedback: the one of the mock provider, the one of the hosted
\* provider's document, or the default record when the hosted call failed.
RecordOf(request) ==
    IF request.response = "mock" THEN MockRecord(request.sent.v.s)
    ELSE IF request.response = "json" THEN process_llm_output(PyDict(GoodDict)).v
    ELSE process_llm_output(PyDict(EmptyDict)).v

\* The session an analyze request named is gone from the registry.
Discarded(request) ==
    request.target \in {"active", "ended"}
        => KeyOf(request.session_id.s) \notin DOMAIN active_sessions

\* The session drawn last is registered and holds `n` messages.
NewSessionHolds(n) ==
    /\ SessionIds[issued] \in DOMAIN active_sessions
    /\ Len(active_sessions[SessionIds[issued]].messages) = n

(* C32: when save_feedback fails to store the record, the analyze request  *)
(* is still answered 200 with the normalized record and the named session  *)
(* is removed from the registry (no row is stored); the start request that *)
(* follows registers a greeted session and the message sent to it is       *)
(* answered with a reply that is appended to its buffer.                   *)
StorageFailureTolerated ==
    /\ (call.op = "analyze" /\ call.save = "failed")
          => /\ resp = Json(200, [success |-> TRUE, feedback |-> RecordOf(call)])
             /\ WellFormedRecord(resp.body.feedback)
             /\ Discarded(call)
             /\ rows = <<>>
    /\ (call.op = "start" /\ call.before.save = "failed")
          => /\ resp.status = 200 /\ resp.body.success
             /\ resp.body.session_id = SessionIds[issued]
             /\ NewSessionHolds(1)
    /\ (call.op = "send_message" /\ call.before.save = "failed")
          => /\ resp.status = 200 /\ resp.body.success
             /\ resp.body.session_id = SessionIds[issued]
             /\ SessionIds[issued] \in DOMAIN active_sessions

\* After a failed save of the record of a registered session, a new session
\* was started and its first message answered.
WitnessStorageFailure ==
    /\ call.op = "send_message"
    /\ call.before.save = "failed"
    /\ call.before.target \in {"active", "ended"}
    /\ resp.status = 200
    /\ rows = <<>>
    /\ DOMAIN active_sessions = {SessionIds[issued]}

(* C38: an analyze request that supplies no transcript and names no        *)
(* session, or a session that is not in the registry, is answered 400 'No  *)
(* transcript provided'; nothing goes to the gateway, no row is stored and *)
(* the registry is unchanged.                                              *)
NoTranscriptRejected ==
    (call.op = "analyze" /\ ~call.transcript /\ call.target \in {"absent", "unknown"})
        => /\ resp = Failure(400, <<"No transcript provided">>)
           /\ call.sent = NotCalled
           /\ call.stored = 0 /\ rows = <<>>
           /\ call.changed = {}

\* The part of it that holds: such a request is answered with an error and
\* has no effect.
NoTranscriptNoEffect ==
    (call.op = "analyze" /\ ~call.transcript /\ call.target \in {"absent", "unknown"})
        => /\ resp.status \in {400, 500} /\ ~resp.body.success
           /\ (call.data.t = "dict" => resp = Failure(400, <<"No transcript provided">>))
           /\ call.sent = NotCalled
           /\ call.stored = 0 /\ rows = <<>>
           /\ call.changed = {}

-----------------------------------------------------------------------------
(* A JSON document analyzed bare and inside a code fence: SpecFence.       *)
(*                                                                         *)
(* raw is the document with the whitespace put around it, result the two   *)
(* outcomes of analyze_feedback followed by process_llm_output.            *)

\* The response made of the document between an opening json fence and a
\* closing fence, with whitespace where `spaces` says: before the opening
\* fence, after it, before the closing fence and after it.
Spaced(on) == IF on THEN <<Ws>> ELSE <<>>
Fenced(doc, spaces) ==
    Spaced(spaces[1]) \o <<FenceJson>> \o Spaced(spaces[2]) \o JsonDumps(doc)
        \o Spaced(spaces[3]) \o <<Fence>> \o Spaced(spaces[4])

InitFence ==
    /\ raw \in [doc : JsonValues, spaces : [1..4 -> BOOLEAN]]
    /\ result = NotCalled
    /\ npc = "new"
    /\ BufferUnused
    /\ AppUnused
    /\ CliUnused

\* The record of a response text, or the exception of the normalizer.
RecordOfText(tokens) == process_llm_output(analyze_feedback(Text(tokens)))

\* The provider returns the document as it is.
AnalyzeBare ==
    /\ npc = "new"
    /\ result' = [bare |-> RecordOfText(JsonDumps(raw.doc))]
    /\ npc' = "bare"
    /\ UNCHANGED <<raw, bvars, avars, cvars>>

\* The provider returns the document inside the fence.
AnalyzeFenced ==
    /\ npc = "bare"
    /\ result' = result @@ [fenced |-> RecordOfText(Fenced(raw.doc, raw.spaces))]
    /\ npc' = "done"
    /\ UNCHANGED <<raw, bvars, avars, cvars>>

NextFence == AnalyzeBare \/ AnalyzeFenced

SpecFence == InitFence /\ [][NextFence]_vars

(* C36: for every JSON document, the response made of the document between *)
(* a leading json fence marker and a trailing fence marker, with or        *)
(* without whitespace around the markers, gives the same outcome as the    *)
(* document alone: the same record, or the same exception of the           *)
(* normalizer.                                                             *)
FenceWrappingIsTransparent == npc = "done" => result.fenced = result.bare

\* Both analyses of the well-formed document have returned its record, the
\* fence being surrounded by whitespace.
WitnessFencedDocument ==
    /\ npc = "done"
    /\ raw.doc = PyDict(GoodDict)
    /\ \A i \in 1..4 : raw.spaces[i]
    /\ result.fenced = process_llm_output(PyDict(GoodDict))
    /\ ~Raised(result.fenced)
    /\ result.fenced.v # process_llm_output(PyDict(ParseFailureDict)).v

\* The four documents of the mock analysis backend.
CannedDocuments == {NegativeAnalysis, PositiveAnalysis, RudeAnalysis, NeutralAnalysis}

\* The record has the fields of the document, with the document's values.
SameFields(record, doc) ==
    /\ doc.t = "dict"
    /\ DOMAIN record = DOMAIN doc.d
    /\ WellFormedRecord(record)
    /\ AsPlainDict(record) = doc

(* C37: whatever conversation the mock analysis backend is given, the      *)
(* document it returns is one of the four canned documents, and the record *)
(* the request is answered with, after parsing and normalization, has the  *)
(* fields of that document with the document's values.                     *)
MockDocumentIsFixedPoint ==
    (call.op = "analyze" /\ call.response = "mock")
        => /\ ~Raised(JsonLoads(mock_analyze_conversation(call.sent.v.s).s))
           /\ JsonLoads(mock_analyze_conversation(call.sent.v.s).s).v \in CannedDocuments
           /\ resp.status = 200
           /\ SameFields(resp.body.feedback,
                         JsonLoads(mock_analyze_conversation(call.sent.v.s).s).v)

\* The record of the mock's document for a conversation.
MockAnswered(conversation, doc) ==
    /\ call.op = "analyze"
    /\ call.response = "mock"
    /\ call.sent = Ok(PyStr(get_user_message(conversation)))
    /\ AsPlainDict(resp.body.feedback) = doc

\* The mock has answered with the record of the unhappy patient's document
\* for the transcript of the session with the complaint.
WitnessMockDocument ==
    MockAnswered(get_conversation_transcript(Exchanged[SessionIds[1]]), NegativeAnalysis)

-----------------------------------------------------------------------------
(* conversational_assistant.py: ConversationalAssistant.                   *)
(*                                                                         *)
(* The object is a record of its attributes; state holds the value of the  *)
(* ConversationState member, created_at and ended_at are None or the time  *)
(* of the clock.  A method gives the object after the call and what the    *)
(* call returned or raised.                                                *)

ConversationState == {"idle", "active", "ending", "completed"}

GREETINGS ==
    << <<"Hello! I'm here to listen about your healthcare experience today. What would you like to share?">>,
       <<"Hi there! I'd love to hear about your recent healthcare visit. How did it go?">>,
       <<"Welcome! I'm here to understand your healthcare experience. Feel free to share anything on your mind.">> >>

CLOSING_MESSAGES ==
    << <<"Thank you so much for sharing your experience with me. Your feedback is really valuable.">>,
       <<"I appreciate you taking the time to share this. Your input helps us improve.">>,
       <<"Thank you for this conversation. Your feedback will make a real difference.">> >>

\* datetime.now()
At(t) == [t |-> "datetime", at |-> t]

\* __init__
NewAssistant ==
    [ conversation_history |-> <<>>, state |-> "idle", topics_discussed |-> {},
      created_at |-> PyNone, ended_at |-> PyNone, greeting_index |-> 0 ]

Did(obj, out) == [obj |-> obj, out |-> out]

\* start_conversation
start_conversation(a, t) ==
    Did([ conversation_history |->
            <<Message("assistant", GREETINGS[(a.greeting_index % Len(GREETINGS)) + 1], t)>>,
          state |-> "active", topics_discussed |-> {},
          created_at |-> At(t), ended_at |-> PyNone,
          greeting_index |-> a.greeting_index + 1 ],
        Ok(PyStr(GREETINGS[(a.greeting_index % Len(GREETINGS)) + 1])))

\* The closing message for a conversation with msg_count user messages.
ClosingFor(msg_count) ==
    IF msg_count >= 5 THEN CLOSING_MESSAGES[1]
    ELSE IF msg_count >= 2 THEN CLOSING_MESSAGES[2]
    ELSE CLOSING_MESSAGES[3]

\* The same without the test for a conversation that has ended already.
end_conversation_repeatable(a, t) ==
    IF a.state = "idle"
    THEN Did(a, Ok(PyStr(<<"There's no active conversation to end.">>)))
    ELSE Did([a EXCEPT
                !.state = "completed", !.ended_at = At(t),
                !.conversation_history =
                    Append(@, Message("assistant", ClosingFor(UserCount(@)), t))],
             Ok(PyStr(ClosingFor(UserCount(a.conversation_history)))))

\* end_conversation
end_conversation(a, t) ==
    IF a.state = "idle"
    THEN Did(a, Ok(PyStr(<<"There's no active conversation to end.">>)))
    ELSE IF a.state = "completed"
    THEN Did(a, Ok(PyStr(<<"This conversation has already ended.">>)))
    ELSE Did([a EXCEPT
                !.state = "completed", !.ended_at = At(t),
                !.conversation_history =
                    Append(@, Message("assistant", ClosingFor(UserCount(@)), t))],
             Ok(PyStr(ClosingFor(UserCount(a.conversation_history)))))

\* _detect_topics: keyword in message.lower(), for the keywords of each topic.
topic_keywords ==
    [ wait_time |->
        { <<"w","a","i","t">>,
          <<"w","a","i","t","i","n","g">>,
          <<"l","o","n","g"," ","t","i","m","e">>,
          <<"h","o","u","r","s">>,
          <<"d","e","l","a","y">> },
      staff |->
        { <<"s","t","a","f","f">>,
          <<"n","u","r","s","e">>,
          <<"d","o","c","t","o","r">>,
          <<"r","e","c","e","p","t","i","o","n","i","s","t">>,
          <<"e","m","p","l","o","y","e","e">> },
      facility |->
        { <<"r","o","o","m">>,
          <<"b","u","i","l","d","i","n","g">>,
          <<"f","a","c","i","l","i","t","y">>,
          <<"p","a","r","k","i","n","g">>,
          <<"c","l","e","a","n">> },
      communication |->
        { <<"e","x","p","l","a","i","n">>,
          <<"t","o","l","d">>,
          <<"s","a","i","d">>,
          <<"u","n","d","e","r","s","t","a","n","d">>,
          <<"c","o","n","f","u","s","e","d">> },
      treatment |->
        { <<"t","r","e","a","t","m","e","n","t">>,
          <<"p","r","o","c","e","d","u","r","e">>,
          <<"m","e","d","i","c","i","n","e">>,
          <<"p","r","e","s","c","r","i","p","t","i","o","n">> },
      billing |->
        { <<"c","o","s","t">>,
          <<"b","i","l","l">>,
          <<"i","n","s","u","r","a","n","c","e">>,
          <<"p","a","y","m","e","n","t">>,
          <<"e","x","p","e","n","s","i","v","e">> },
      appointment |->
        { <<"a","p","p","o","i","n","t","m","e","n","t">>,
          <<"s","c","h","e","d","u","l","e">>,
          <<"b","o","o","k","i","n","g">>,
          <<"a","v","a","i","l","a","b","l","e">> },
      overall_positive |->
        { <<"g","o","o","d">>,
          <<"g","r","e","a","t">>,
          <<"e","x","c","e","l","l","e","n","t">>,
          <<"h","a","p","p","y">>,
          <<"s","a","t","i","s","f","i","e","d">> },
      overall_negative |->
        { <<"b","a","d">>,
          <<"p","o","o","r">>,
          <<"t","e","r","r","i","b","l","e">>,
          <<"u","n","h","a","p","p","y">>,
          <<"d","i","s","a","p","p","o","i","n","t","e","d">> } ]
detect_topics(message) ==
    {topic \in DOMAIN topic_keywords :
        \E kw \in topic_keywords[topic] : IsInfix(kw, Lower(message))}

\* `if not message or not message.strip(): return False`, then the append of
\* the trimmed message; an object that is true and no str has no strip().
AddToHistory(a, role, message, t, topics) ==
    IF Falsy(message) THEN Did(a, Ok(PyBool(FALSE)))
    ELSE IF message.t # "str" THEN Did(a, Raise("AttributeError"))
    ELSE IF Strip(message.s) = <<>> THEN Did(a, Ok(PyBool(FALSE)))
    ELSE Did([a EXCEPT
                !.conversation_history = Append(@, Message(role, Strip(message.s), t)),
                !.topics_discussed = @ \cup topics],
             Ok(PyBool(TRUE)))

\* add_user_message
assistant_add_user_message(a, message, t) ==
    IF a.state # "active" THEN Did(a, Ok(PyBool(FALSE)))
    ELSE AddToHistory(a, "user", message, t,
                      IF message.t = "str" THEN detect_topics(Strip(message.s)) ELSE {})

\* The same accepting a message whenever a conversation has been started.
assistant_add_assistant_message_started(a, message, t) ==
    IF a.state = "idle" THEN Did(a, Ok(PyBool(FALSE)))
    ELSE AddToHistory(a, "assistant", message, t, {})

\* add_assistant_message
assistant_add_assistant_message(a, message, t) ==
    IF a.state \notin {"active", "ending"} THEN Did(a, Ok(PyBool(FALSE)))
    ELSE AddToHistory(a, "assistant", message, t, {})

\* The same with the end time left in place.
assistant_reset_keeping_end(a) ==
    Did([a EXCEPT !.conversation_history = <<>>, !.state = "idle",
                  !.topics_discussed = {}, !.created_at = PyNone], Ok(PyNone))

\* reset
assistant_reset(a) ==
    Did([a EXCEPT !.conversation_history = <<>>, !.state = "idle",
                  !.topics_discussed = {}, !.created_at = PyNone, !.ended_at = PyNone],
        Ok(PyNone))

-----------------------------------------------------------------------------
(* One ConversationalAssistant under any sequence of calls: SpecAssistant. *)
(*                                                                         *)
(* conv is the object, last the latest call with what it returned, now the *)
(* clock.                                                                  *)

\* A conversation holds up to MaxLog messages before it is ended (the closing
\* message for five user messages or more lies beyond that), and the object
\* is started up to MaxStarts times.
MaxLog == 3
MaxStarts == 2

AssistantMessages ==
    { PyStr(<<" ","t","h","e"," ","W","a","i","t"," ","w","a","s"," ","b","a","d"," ">>),
      PyStr(<<" ">>), PyStr(<<>>), PyNone, PyInt(5) }

InitAssistant ==
    /\ conv = NewAssistant
    /\ appended = <<>>
    /\ now = 0
    /\ last = NoCall
    /\ NormUnused
    /\ AppUnused
    /\ CliUnused

\* A call of a method: the object and the record of the call after it.
Called(op, did) ==
    /\ conv' = did.obj
    /\ last' = [op |-> op, out |-> did.out]
    /\ UNCHANGED <<appended, now, nvars, avars, cvars>>

\* The history has room for a message (a call that appends nothing, the
\* conversation not being active, is not limited).
Room == conv.state # "active" \/ Len(conv.conversation_history) < MaxLog

StartConversation ==
    /\ conv.greeting_index < MaxStarts
    /\ Called("start_conversation", start_conversation(conv, now))

EndConversation == Called("end_conversation", end_conversation(conv, now))

AssistantAddUserMessage ==
    /\ Room
    /\ \E message \in AssistantMessages :
          Called("add_user_message", assistant_add_user_message(conv, message, now))

AssistantAddAssistantMessage ==
    /\ Room
    /\ \E message \in AssistantMessages :
          Called("add_assistant_message", assistant_add_assistant_message(conv, message, now))

AssistantReset == Called("reset", assistant_reset(conv))

NextAssistant ==
    \/ StartConversation
    \/ EndConversation
    \/ AssistantAddUserMessage
    \/ AssistantAddAssistantMessage
    \/ AssistantReset
    \/ Tick

SpecAssistant == InitAssistant /\ [][NextAssistant]_vars

\* The two calls that add a message.
AddCalls == {"add_user_message", "add_assistant_message"}

\* The step is the call `last` records after it: a call changes the record
\* of the latest call or the object, unless it repeats the call before it
\* to no effect.
CallStep == last' # last \/ conv' # conv

\* The history ends with the closing message of end_conversation.
EndsWithClosing(a) ==
    /\ a.conversation_history # <<>>
    /\ a.conversation_history[Len(a.conversation_history)].role = "assistant"
    /\ \E i \in 1..Len(CLOSING_MESSAGES) :
          a.conversation_history[Len(a.conversation_history)].content = CLOSING_MESSAGES[i]

(* C39: add_user_message and add_assistant_message called while the state  *)
(* is IDLE or COMPLETED return False and leave the object as it is; in     *)
(* state COMPLETED the history ends with the closing message, and history, *)
(* topics, state and ended_at stay as they are under every call but        *)
(* start_conversation and reset; end_conversation called again returns the *)
(* already-ended text and appends nothing.                                 *)
InactiveAssistantIsFrozen ==
    /\ [](conv.state = "completed" => EndsWithClosing(conv))
    /\ [][(CallStep /\ conv.state \in {"idle", "completed"} /\ last'.op \in AddCalls)
            => (last'.out = Ok(PyBool(FALSE)) /\ conv' = conv)]_vars
    /\ [][(CallStep /\ conv.state = "completed"
                /\ last'.op \notin {"start_conversation", "reset"})
            => /\ conv'.conversation_history = conv.conversation_history
               /\ conv'.topics_discussed = conv.topics_discussed
               /\ conv'.state = "completed"
               /\ conv'.ended_at = conv.ended_at]_vars
    /\ [][(CallStep /\ conv.state = "completed" /\ last'.op = "end_conversation")
            => /\ last'.out = Ok(PyStr(<<"This conversation has already ended.">>))
               /\ conv' = conv]_vars

\* After the end of a conversation with a user message, and a tick of the
\* clock, a call that adds a message has returned False.
WitnessFrozenAfterEnd ==
    /\ conv.state = "completed"
    /\ last.op \in AddCalls
    /\ last.out = Ok(PyBool(FALSE))
    /\ UserCount(conv.conversation_history) >= 1
    /\ conv.ended_at # At(now)
    /\ EndsWithClosing(conv)

(* C40: the state is always IDLE, ACTIVE or COMPLETED, never ENDING; the   *)
(* state becomes COMPLETED only from ACTIVE and by end_conversation; and   *)
(* ended_at is set exactly when the state is COMPLETED.                    *)
AssistantStatesAndEndTime ==
    /\ [](conv.state \in {"idle", "active", "completed"})
    /\ []((conv.ended_at # PyNone) <=> (conv.state = "completed"))
    /\ [][(conv'.state = "completed" /\ conv.state # "completed")
            => (CallStep /\ conv.state = "active" /\ last'.op = "end_conversation")]_vars

\* A conversation was ended, and the object reset and started again: the
\* end time is cleared.
WitnessRestarted ==
    /\ conv.state = "active"
    /\ conv.greeting_index = 2
    /\ last.op = "start_conversation"
    /\ conv.ended_at = PyNone
    /\ conv.created_at = At(1)

====
